---- MODULE Spec2Model ----
(***************************************************************************)
(* State-machine model of the lock-free containers of the repository       *)
(* BarisAlbayrakIEEE/lock_free:                                            *)
(*   - the ticket ring MPMC queue  (Concurrent_Queue__LF_Ring_MPMC.hpp)    *)
(*   - the ticket ring SPSC queue  (Concurrent_Queue_LF_Ring_SPSC.hpp)     *)
(*   - the ticket ring MPMC stack  (Concurrent_Stack_LF_Ring_Ticket_MPMC)  *)
(*   - the hazard-protected linked stack and the hazard registry           *)
(*     (Concurrent_Stack_LF_Linked_Hazard_MPMC.hpp, Hazard_Ptr.hpp)        *)
(* Every atomic access of the code is one action; the steps of one call    *)
(* are linked by the per-thread program counter.                           *)
(***************************************************************************)
EXTENDS Integers, Naturals, Sequences, FiniteSets, TLC

\* ------------------------------------------------------------------ bounds
\* number of threads that call into the ring MPMC queue
QThreads == 2
\* number of calls issued in one run of the ring MPMC queue
QMaxOps == 4
\* number of calls one thread issues when it drives the queue alone
QSeqOps == 6
\* number of calls issued in one run of blocking push and pop only
QBlockingOps == 5
\* number of pushes, and of pops, in one run of the ring SPSC queue
SMaxPushes == 10
\* the queues are built with Capacity_As_Pow2 in 0..MaxCapPow2
MaxCapPow2 == 1
\* number of threads that call into the ring ticket stack
KThreads == 2
\* number of calls issued in one run of the ring ticket stack
KMaxOps == 4
\* number of calls one thread issues when it drives the ring ticket stack alone
KSeqOps == 6
\* the ring ticket stack is built with Capacity_As_Pow2 in 0..KMaxCapPow2
KMaxCapPow2 == 2
\* number of threads that call the blocking push and pop of the ring ticket stack
KBlockingThreads == 3
\* number of threads that call into the hazard-protected linked stack
HThreads == 2
\* number of calls issued in one run of the hazard-protected linked stack
HMaxOps == 4
\* number of node addresses the allocator hands out (and hands out again)
HMaxNodes == 2
\* the stack is built with Hazard_Ptr_Record_Count = HAZARD_PTR_RECORD_COUNT
HAZARD_PTR_RECORD_COUNT == 3
\* number of stores a thread may have issued and not yet made visible
HMaxBuffer == 2
\* threads that acquire hazard records side by side, in the runs about the registry
HAcquirers == 3

\* number of consumer threads of the ring SPMC queue
PConsumers == 2
\* number of calls issued in one run of the ring SPMC queue
PMaxOps == 4

\* number of threads that call into the blocking queue
BThreads == 3
\* number of calls issued in one run of the blocking queue
BMaxOps == 6

\* number of producer threads of the linked MPSC stack
MProducers == 2
\* number of calls issued in one run of the linked MPSC stack
MMaxOps == 6
\* number of node addresses the allocator hands out (and hands out again)
MMaxNodes == 3

\* ticket ring queue: threads, calls issued in a run, largest capacity 2^TMaxCapPow2
TThreads == 2
TMaxOps == 5
TMaxCapPow2 == 1

\* stamped ring queue beside the ticket ring queue: threads, calls issued in a
\* run, largest capacity 2^ZMaxCapPow2
ZThreads == 2
ZMaxOps == 4
ZMaxCapPow2 == 1

\* ------------------------------------------------------------- shared names
\* raw bytes that hold no object any push constructed (pushed values are >= 0)
Garbage == 0 - 1
\* a call that reserved no ticket
NoTicket == 0 - 1
\* the thread runs no call
NoOp == 1 - 1

RECURSIVE pow2_size(_)
pow2_size(Power) == IF Power = 0 THEN 1 ELSE 2 * pow2_size(Power - 1)

\* ticket & _MASK with _MASK = capacity - 1, capacity a power of two
MaskIndex(ticket, capacity) == ticket % capacity

\* ================================================================
\* State
\* ================================================================
\* ---- ring MPMC queue (Concurrent_Queue__LF_Ring_MPMC.hpp)
VARIABLES
    q_CAPACITY,   \* _CAPACITY
    q_run,        \* the run: [threads: how many threads call, calls: how many calls]
    q_head,       \* _head : next ticket to pop
    q_tail,       \* _tail : next ticket to push
    q_expected,   \* _slots[i]._expected_ticket
    q_data,       \* _slots[i]._data : [val, live]
    q_size,       \* _size (the value of the 64-bit counter, negative = wrapped)
    q_pc,         \* per thread: the statement it is at
    q_ticket,     \* per thread: producer_ticket / consumer_ticket
    q_op,         \* per thread: the call it is running (index into q_calls)
    q_calls,      \* history: one record per call issued
    q_live,       \* history: objects constructed in slots and not yet moved out
    q_used,       \* history: threads 1..q_used have issued a call
    q_seq         \* history: no call was ever issued while another one ran

qvars == <<q_CAPACITY, q_run, q_head, q_tail, q_expected, q_data, q_size,
           q_pc, q_ticket, q_op, q_calls, q_live, q_used, q_seq>>

\* ---- ring SPSC queue (Concurrent_Queue_LF_Ring_SPSC.hpp)
VARIABLES
    s_CAPACITY,   \* _CAPACITY
    s_head,       \* _head : next ticket to pop (plain, consumer only)
    s_tail,       \* _tail : next ticket to push (plain, producer only)
    s_expected,   \* _slots[i]._expected_ticket
    s_data,       \* _slots[i]._data : [val, live]
    s_ppc,        \* the statement the producer is at
    s_cpc,        \* the statement the consumer is at
    s_pval,       \* producer: the argument of the running push
    s_cval,       \* consumer: the local std::optional<T> data
    s_pushes,     \* history: number of push calls issued
    s_pops,       \* history: number of pop calls that returned
    s_inorder,    \* history: the pops returned SValueOf(1), SValueOf(2), ... in order
    s_live,       \* history: objects constructed in slots and not yet moved out
    s_trips       \* history: the calls so far were push, pop, push, pop, ...
                  \*          each issued after the one before had returned

svars == <<s_CAPACITY, s_head, s_tail, s_expected, s_data, s_ppc, s_cpc,
           s_pval, s_cval, s_pushes, s_pops, s_inorder, s_live, s_trips>>

\* ---- ring ticket stack (Concurrent_Stack_LF_Ring_Ticket_MPMC.hpp)
VARIABLES
    k_CAPACITY,   \* capacity
    k_run,        \* the run: [threads: how many threads call, calls: how many calls]
    k_top,        \* _top : the next top_ticket to push
    k_expected,   \* _slots[i]._expected_ticket
    k_data,       \* _slots[i]._data : [val, live]
    k_pc,         \* per thread: the statement it is at
    k_ticket,     \* per thread: top_ticket (push, try_push, try_pop), old_top (pop)
    k_op,         \* per thread: the call it is running (index into k_calls)
    k_calls,      \* history: one record per call issued
    k_clock,      \* history: number of calls issued plus calls returned
    k_live,       \* history: objects constructed in slots and not yet moved out
    k_used        \* history: threads 1..k_used have issued a call

kvars == <<k_CAPACITY, k_run, k_top, k_expected, k_data, k_pc, k_ticket,
           k_op, k_calls, k_clock, k_live, k_used>>

\* ---- hazard-protected linked stack and hazard registry
\*      (Concurrent_Stack_LF_Linked_Hazard_MPMC.hpp, Hazard_Ptr.hpp)
VARIABLES
    h_run,        \* the run: [buffered: stores to hazard records pass through
                  \*           the store buffer of the thread that issues them]
    h_head,       \* _head
    h_node,       \* the heap: per address [next, data, live]
    h_owner,      \* HAZARD_PTR_RECORDS[i]._owner_thread (0: std::thread::id{})
    h_ptr,        \* HAZARD_PTR_RECORDS[i]._ptr
    h_sb,         \* per thread: the stores issued and not yet visible, oldest first
    h_retired,    \* per thread: MEMORY_RECLAIMERS (thread_local)
    h_pc,         \* per thread: the statement it is at
    h_loc,        \* per thread: the locals of the running call
    h_calls,      \* history: one record per call issued
    h_uaf,        \* history: a thread has read a field of a deallocated node
    h_used        \* history: threads 1..h_used have issued a call

hvars == <<h_run, h_head, h_node, h_owner, h_ptr, h_sb, h_retired, h_pc,
           h_loc, h_calls, h_uaf, h_used>>

\* ---- ring SPMC queue (Concurrent_Queue_LF_Ring_SPMC.hpp)
VARIABLES
    p_CAPACITY,   \* _CAPACITY
    p_run,        \* the run: [calls: how many calls]
    p_head,       \* _head : next ticket to pop (atomic)
    p_tail,       \* _tail : next ticket to push (plain, producer only)
    p_expected,   \* _slots[i]._expected_ticket
    p_data,       \* _slots[i]._data : [val, live]
    p_pc,         \* per thread: the statement it is at
    p_ticket,     \* per consumer: consumer_ticket
    p_op,         \* per thread: the call it is running (index into p_calls)
    p_calls       \* history: one record per call issued

pvars == <<p_CAPACITY, p_run, p_head, p_tail, p_expected, p_data, p_pc,
           p_ticket, p_op, p_calls>>

\* ---- blocking queue (Concurrent_Queue_Blocking.hpp) and the flag of the
\*      thread pool that owns it (Thread_Pool__Blocking_Queue.hpp)
VARIABLES
    b_run,        \* the run: [calls: how many calls]
    b_queue,      \* _queue
    b_pc,         \* per thread: the statement it is at
    b_waiting,    \* the threads blocked in _cv.wait and not yet woken
    b_running,    \* Thread_Pool::_running
    b_calls,      \* history: number of calls issued
    b_pushes,     \* history: number of push calls issued
    b_pops,       \* history: number of pop calls that returned an element
    b_inorder     \* history: the pops returned BValueOf(1), BValueOf(2), ... in order

bvars == <<b_run, b_queue, b_pc, b_waiting, b_running, b_calls, b_pushes,
           b_pops, b_inorder>>

\* ---- linked MPSC stack (Concurrent_Stack_LF_Linked_MPSC.hpp)
VARIABLES
    m_head,       \* _head
    m_node,       \* per address: [next: _next, data: _data, live: allocated]
    m_pc,         \* per thread: the statement it is at
    m_loc,        \* per thread: new_head, old_head, the argument old_head->_next
    m_used,       \* the producers that have called so far are 1..m_used
    m_calls,      \* history: the calls in the order they were issued
    m_order       \* history: the values held, in the order the CAS of their
                  \* push succeeded

mvars == <<m_head, m_node, m_pc, m_loc, m_used, m_calls, m_order>>

\* ---- ticket ring MPMC queue (Concurrent_Queue_LF_Ring_Ticket_MPMC.hpp)
VARIABLES
    t_CAPACITY,   \* _CAPACITY
    t_head,       \* _head
    t_tail,       \* _tail
    t_expected,   \* per slot: _expected_ticket
    t_live,       \* per slot: the storage holds a constructed element
    t_pc,         \* per thread: the statement it is at
    t_ticket,     \* per thread: producer_ticket / consumer_ticket
    t_issued,     \* history: number of calls issued
    t_stored      \* history: elements constructed less elements moved out

tvars == <<t_CAPACITY, t_head, t_tail, t_expected, t_live, t_pc, t_ticket,
           t_issued, t_stored>>

\* ---- stamped ring MPMC queue (Concurrent_Queue_LF_Ring_Stamped_MPMC.hpp)
\*      and, beside it, a ticket ring MPMC queue of the same capacity
\*      (Concurrent_Queue_LF_Ring_Ticket_MPMC.hpp) that takes the same calls
VARIABLES
    z_CAPACITY,   \* _CAPACITY of both queues
    z_head,       \* stamped queue: _head
    z_tail,       \* stamped queue: _tail
    z_version,    \* stamped queue, per slot: _version
    z_data,       \* stamped queue, per slot: _data : [val, live]
    z_pc,         \* stamped queue, per thread: the statement it is at
    z_ticket,     \* stamped queue, per thread: producer_ticket / consumer_ticket
    z_calls,      \* history: one record per call issued, with the result of
                  \* the stamped queue
    z_op,         \* per thread: the call it is running (index into z_calls)
    y_head,       \* ticket queue: _head
    y_tail,       \* ticket queue: _tail
    y_expected,   \* ticket queue, per slot: _expected_ticket
    y_data,       \* ticket queue, per slot: _data : [val, live]
    y_pc,         \* ticket queue, per thread: the statement it is at
    y_ticket,     \* ticket queue, per thread: producer_ticket / consumer_ticket
    y_calls       \* history: the result of the ticket queue for each call

zvars == <<z_CAPACITY, z_head, z_tail, z_version, z_data, z_pc, z_ticket,
           z_calls, z_op>>
yvars == <<y_head, y_tail, y_expected, y_data, y_pc, y_ticket, y_calls>>

\* what a call into one container leaves alone: the other containers
QOthers == <<svars, kvars, hvars, pvars, bvars, mvars, tvars, zvars, yvars>>
SOthers == <<qvars, kvars, hvars, pvars, bvars, mvars, tvars, zvars, yvars>>
KOthers == <<qvars, svars, hvars, pvars, bvars, mvars, tvars, zvars, yvars>>
HOthers == <<qvars, svars, kvars, pvars, bvars, mvars, tvars, zvars, yvars>>
POthers == <<qvars, svars, kvars, hvars, bvars, mvars, tvars, zvars, yvars>>
BOthers == <<qvars, svars, kvars, hvars, pvars, mvars, tvars, zvars, yvars>>
MOthers == <<qvars, svars, kvars, hvars, pvars, bvars, tvars, zvars, yvars>>
TOthers == <<qvars, svars, kvars, hvars, pvars, bvars, mvars, zvars, yvars>>
ZOthers == <<qvars, svars, kvars, hvars, pvars, bvars, mvars, tvars>>

\* ================================================================
\* Ring MPMC queue (Concurrent_Queue__LF_Ring_MPMC.hpp)
\* ================================================================
QT == 1..QThreads

\* the value a push call supplies: each call pushes a value of its own
QValueOf(id) == id

QSlot(ticket) == MaskIndex(ticket, q_CAPACITY)

QIssued == Len(q_calls)

\* the calls that have returned with success, by kind, at this instant
QPushesOkNow ==
    { i \in 1..Len(q_calls) :
        q_calls[i].kind \in {"push", "try_push"} /\ q_calls[i].state = "ok" }
QPopsOkNow ==
    { i \in 1..Len(q_calls) :
        q_calls[i].kind \in {"pop", "try_pop"} /\ q_calls[i].state = "ok" }

\* a call of this kind, issued now, is a try_pop on a queue that holds no
\* element (every element pushed has been popped) while nothing runs but
\* try_pop calls issued in the same way
QQuiet(kind) ==
    /\ kind = "try_pop"
    /\ Cardinality(QPushesOkNow) = Cardinality(QPopsOkNow)
    /\ \A u \in QT : q_pc[u] # "idle" => q_calls[q_op[u]].quiet

\* the history once a call of this kind is issued: a push, try_push or pop
\* ends the quiet of the calls that run
QDisturb(kind) ==
    IF kind = "try_pop" THEN q_calls
    ELSE [i \in 1..Len(q_calls) |->
            IF q_calls[i].state = "run"
            THEN [q_calls[i] EXCEPT !.quiet = FALSE] ELSE q_calls[i]]

\* the largest producer ticket of a push that has returned (NoTicket: none has)
QTopPushed ==
    LET S == { q_calls[i].ticket : i \in QPushesOkNow }
    IN  IF S = {} THEN NoTicket ELSE CHOOSE x \in S : \A y \in S : y <= x

\* history: seen is, for a try_pop, the largest producer ticket of a push that
\* had returned when the call began; why tells the state of the queue at
\* the instant a try_pop returns std::nullopt (see QWhyNone)
QNewCall(kind) ==
    [kind |-> kind, ticket |-> NoTicket, state |-> "run",
     val |-> Garbage, pre |-> {}, quiet |-> QQuiet(kind), checks |-> 0,
     retried |-> FALSE,
     seen |-> IF kind = "try_pop" THEN QTopPushed ELSE NoTicket,
     why |-> {}]

\* the state of the queue at the instant the try_pop of thread t returns
\* std::nullopt:
\*   "stays"   the element of a push that had returned before the call began
\*             has not been reserved by any pop
\*   "drained" every element of a push that has returned has been reserved by a pop
\*   "notfull" the slot of the next consumer ticket is not marked FULL for it
\*   "raced"   _head is no longer the consumer ticket the call has loaded
QWhyNone(t) ==
    { w \in {"stays", "drained", "notfull", "raced"} :
        \/ w = "stays" /\ q_calls[q_op[t]].seen >= q_head
        \/ w = "drained" /\ QTopPushed < q_head
        \/ w = "notfull" /\ q_expected[QSlot(q_head)] # q_head + 1
        \/ w = "raced" /\ q_head # q_ticket[t] }

\* history: the call of thread t has loaded the mark of its slot once more /
\* its compare-exchange on the counter has failed (checks counts the loads of
\* the mark since the call began or since its last failed compare-exchange,
\* retried tells, while the call runs, that a compare-exchange of it has failed)
QChecked(t) == [q_calls EXCEPT ![q_op[t]].checks = @ + 1]
QCasFailed(t) ==
    [q_calls EXCEPT ![q_op[t]].checks = @ - 1, ![q_op[t]].retried = TRUE]

\* the calls that have returned
QReturned == { i \in 1..Len(q_calls) : q_calls[i].state # "run" }

\* what a move-out may read from slot s: the object a push constructed there,
\* or, when the storage holds no live object or a producer is writing it at the
\* same time (a data race), the stale bytes or anything else
QWriters(s) ==
    { u \in QT : q_pc[u] \in {"push3", "push4", "tpush4", "tpush5"}
                 /\ QSlot(q_ticket[u]) = s }

QMoveOut(s) ==
    IF q_data[s].live /\ QWriters(s) = {}
    THEN {q_data[s].val}
    ELSE {q_data[s].val, Garbage}

QInitState ==
    /\ q_CAPACITY \in { pow2_size(k) : k \in 0..MaxCapPow2 }
    /\ q_head = 0
    /\ q_tail = 0
    /\ q_expected = [i \in 0..(q_CAPACITY - 1) |-> i]
    /\ q_data = [i \in 0..(q_CAPACITY - 1) |-> [val |-> Garbage, live |-> FALSE]]
    /\ q_size = 0
    /\ q_pc = [t \in QT |-> "idle"]
    /\ q_ticket = [t \in QT |-> NoTicket]
    /\ q_op = [t \in QT |-> NoOp]
    /\ q_calls = <<>>
    /\ q_live = 0
    /\ q_used = 0
    /\ q_seq = TRUE

\* several threads issue QMaxOps calls between them
QInit == QInitState /\ q_run = [threads |-> QThreads, calls |-> QMaxOps]

\* several threads issue QBlockingOps calls between them
QInitBlocking == QInitState /\ q_run = [threads |-> QThreads, calls |-> QBlockingOps]

\* one thread issues QSeqOps calls, one after the other
QInitSeq == QInitState /\ q_run = [threads |-> 1, calls |-> QSeqOps]

\* a call is issued: the thread leaves "idle" with the first statement of the call.
\* The threads are interchangeable: they are numbered in the order of their
\* first call.
QIssue(t, kind, label, ticket, reserved) ==
    /\ q_pc[t] = "idle"
    /\ QIssued < q_run.calls
    /\ t <= q_run.threads
    /\ t <= q_used + 1
    /\ q_used' = IF t > q_used THEN t ELSE q_used
    /\ q_seq' = (q_seq /\ \A u \in QT : q_pc[u] = "idle")
    /\ q_pc' = [q_pc EXCEPT ![t] = label]
    /\ q_ticket' = [q_ticket EXCEPT ![t] = ticket]
    /\ q_op' = [q_op EXCEPT ![t] = QIssued + 1]
    /\ q_calls' = Append(QDisturb(kind),
           IF reserved
           THEN [QNewCall(kind) EXCEPT !.ticket = ticket, !.pre = QReturned]
           ELSE QNewCall(kind))

\* the call of thread t returns
QReturn(t, state, val) ==
    /\ q_pc' = [q_pc EXCEPT ![t] = "idle"]
    /\ q_calls' = [q_calls EXCEPT ![q_op[t]].state = state, ![q_op[t]].val = val,
                                   ![q_op[t]].retried = FALSE]

\* ::new (slot.to_ptr()) T(data)
QConstruct(t) ==
    /\ q_data' = [q_data EXCEPT ![QSlot(q_ticket[t])] =
                     [val |-> QValueOf(q_op[t]), live |-> TRUE]]
    /\ q_live' = q_live + 1

\* std::optional<T> data{ std::move(*ptr) }; ptr->~T();
QMove(t) ==
    LET s == QSlot(q_ticket[t]) IN
    /\ \E v \in QMoveOut(s) :
          q_calls' = [q_calls EXCEPT ![q_op[t]].val = v]
    /\ q_data' = [q_data EXCEPT ![s].live = FALSE]
    /\ q_live' = IF q_data[s].live THEN q_live - 1 ELSE q_live

\* ---------------------------------------------------------------- push
\* Step 1: producer_ticket = _tail.fetch_add(1)
Q_push_Step1(t) ==
    /\ QIssue(t, "push", "push2", q_tail, TRUE)
    /\ q_tail' = q_tail + 1
    /\ UNCHANGED <<QOthers, q_CAPACITY, q_run, q_head, q_expected, q_data, q_size, q_live>>

\* a push that also waits for the pushes with smaller tickets: it goes on only
\* when no thread is inside a push or try_push with a smaller ticket
Q_push_Step2_InTurn(t) ==
    /\ q_pc[t] = "push2"
    /\ q_expected[QSlot(q_ticket[t])] = q_ticket[t]
    /\ \A u \in QT :
          q_pc[u] \in {"push2", "push3", "push4", "tpush4", "tpush5"} =>
              q_ticket[u] >= q_ticket[t]
    /\ q_pc' = [q_pc EXCEPT ![t] = "push3"]
    /\ UNCHANGED <<QOthers, q_CAPACITY, q_run, q_head, q_tail, q_expected, q_data, q_size,
                   q_ticket, q_op, q_calls, q_live, q_used, q_seq>>

\* Step 2: while (slot._expected_ticket.load() != producer_ticket);
Q_push_Step2(t) ==
    /\ q_pc[t] = "push2"
    /\ q_expected[QSlot(q_ticket[t])] = q_ticket[t]
    /\ q_pc' = [q_pc EXCEPT ![t] = "push3"]
    /\ UNCHANGED <<QOthers, q_CAPACITY, q_run, q_head, q_tail, q_expected, q_data, q_size,
                   q_ticket, q_op, q_calls, q_live, q_used, q_seq>>

\* Step 3: construct the element in the slot
Q_push_Step3(t) ==
    /\ q_pc[t] = "push3"
    /\ QConstruct(t)
    /\ q_pc' = [q_pc EXCEPT ![t] = "push4"]
    /\ UNCHANGED <<QOthers, q_CAPACITY, q_run, q_head, q_tail, q_expected, q_size,
                   q_ticket, q_op, q_calls, q_used, q_seq>>

\* Step 4: slot._expected_ticket.store(producer_ticket + 1)
Q_push_Step4(t) ==
    /\ q_pc[t] = "push4"
    /\ q_expected' = [q_expected EXCEPT ![QSlot(q_ticket[t])] = q_ticket[t] + 1]
    /\ q_pc' = [q_pc EXCEPT ![t] = "push5"]
    /\ UNCHANGED <<QOthers, q_CAPACITY, q_run, q_head, q_tail, q_data, q_size,
                   q_ticket, q_op, q_calls, q_live, q_used, q_seq>>

\* ++_size; and the call returns
Q_push_Size(t) ==
    /\ q_pc[t] = "push5"
    /\ q_size' = q_size + 1
    /\ QReturn(t, "ok", QValueOf(q_op[t]))
    /\ UNCHANGED <<QOthers, q_CAPACITY, q_run, q_head, q_tail, q_expected, q_data,
                   q_ticket, q_op, q_live, q_used, q_seq>>

\* ----------------------------------------------------------------- pop
\* Step 1: consumer_ticket = _head.fetch_add(1)
Q_pop_Step1(t) ==
    /\ QIssue(t, "pop", "pop2", q_head, TRUE)
    /\ q_head' = q_head + 1
    /\ UNCHANGED <<QOthers, q_CAPACITY, q_run, q_tail, q_expected, q_data, q_size, q_live>>

\* Step 2: while (slot._expected_ticket.load() != consumer_ticket + 1);
Q_pop_Step2(t) ==
    /\ q_pc[t] = "pop2"
    /\ q_expected[QSlot(q_ticket[t])] = q_ticket[t] + 1
    /\ q_pc' = [q_pc EXCEPT ![t] = "pop3"]
    /\ UNCHANGED <<QOthers, q_CAPACITY, q_run, q_head, q_tail, q_expected, q_data, q_size,
                   q_ticket, q_op, q_calls, q_live, q_used, q_seq>>

\* Steps 3 and 4: move the element out and destroy the residue
Q_pop_Step3(t) ==
    /\ q_pc[t] = "pop3"
    /\ QMove(t)
    /\ q_pc' = [q_pc EXCEPT ![t] = "pop5"]
    /\ UNCHANGED <<QOthers, q_CAPACITY, q_run, q_head, q_tail, q_expected, q_size,
                   q_ticket, q_op, q_used, q_seq>>

\* Step 5: slot._expected_ticket.store(consumer_ticket + _CAPACITY)
Q_pop_Step5(t) ==
    /\ q_pc[t] = "pop5"
    /\ q_expected' = [q_expected EXCEPT ![QSlot(q_ticket[t])] =
                         q_ticket[t] + q_CAPACITY]
    /\ q_pc' = [q_pc EXCEPT ![t] = "pop6"]
    /\ UNCHANGED <<QOthers, q_CAPACITY, q_run, q_head, q_tail, q_data, q_size,
                   q_ticket, q_op, q_calls, q_live, q_used, q_seq>>

\* --_size; Step 6: return data
Q_pop_Size(t) ==
    /\ q_pc[t] = "pop6"
    /\ q_size' = q_size - 1
    /\ QReturn(t, "ok", q_calls[q_op[t]].val)
    /\ UNCHANGED <<QOthers, q_CAPACITY, q_run, q_head, q_tail, q_expected, q_data,
                   q_ticket, q_op, q_live, q_used, q_seq>>

\* ------------------------------------------------------------ try_push
\* a try_push that reserves its ticket with a fetch_add before it has
\* inspected the slot
Q_try_push_Step1_FetchAdd(t) ==
    /\ QIssue(t, "try_push", "tpush2", q_tail, FALSE)
    /\ q_tail' = q_tail + 1
    /\ UNCHANGED <<QOthers, q_CAPACITY, q_run, q_head, q_expected, q_data, q_size, q_live>>

\* Step 1: producer_ticket = _tail.load()
Q_try_push_Step1(t) ==
    /\ QIssue(t, "try_push", "tpush2", q_tail, FALSE)
    /\ UNCHANGED <<QOthers, q_CAPACITY, q_run, q_head, q_tail, q_expected, q_data, q_size, q_live>>

\* a try_push that waits for its slot as push does: while the mark is not the
\* one of its ticket it loads the mark again
Q_try_push_Step2_Spin(t) ==
    /\ q_pc[t] = "tpush2"
    /\ q_calls' = QChecked(t)
    /\ q_pc' = [q_pc EXCEPT ![t] =
          IF q_expected[QSlot(q_ticket[t])] # q_ticket[t] THEN "tpush2" ELSE "tpush3"]
    /\ UNCHANGED <<QOthers, q_CAPACITY, q_run, q_head, q_tail, q_expected, q_data, q_size,
                   q_ticket, q_op, q_live, q_used, q_seq>>

\* Step 2: if (slot._expected_ticket.load() != producer_ticket) return false;
Q_try_push_Step2(t) ==
    /\ q_pc[t] = "tpush2"
    /\ IF q_expected[QSlot(q_ticket[t])] # q_ticket[t]
       THEN /\ q_pc' = [q_pc EXCEPT ![t] = "idle"]
            /\ q_calls' = [QChecked(t) EXCEPT ![q_op[t]].state = "fail",
                                               ![q_op[t]].val = Garbage,
                                               ![q_op[t]].retried = FALSE]
       ELSE /\ q_pc' = [q_pc EXCEPT ![t] = "tpush3"]
            /\ q_calls' = QChecked(t)
    /\ UNCHANGED <<QOthers, q_CAPACITY, q_run, q_head, q_tail, q_expected, q_data, q_size,
                   q_ticket, q_op, q_live, q_used, q_seq>>

\* a try_push whose Step 3 takes the ticket it has loaded without comparing
\* it with _tail: _tail.store(producer_ticket + 1)
Q_try_push_Step3_Blind(t) ==
    /\ q_pc[t] = "tpush3"
    /\ q_tail' = q_ticket[t] + 1
    /\ q_pc' = [q_pc EXCEPT ![t] = "tpush4"]
    /\ q_calls' = [q_calls EXCEPT ![q_op[t]].ticket = q_ticket[t],
                                   ![q_op[t]].pre = QReturned]
    /\ UNCHANGED <<QOthers, q_CAPACITY, q_run, q_head, q_expected, q_data, q_size,
                   q_ticket, q_op, q_live, q_used, q_seq>>

\* Step 3: _tail.compare_exchange_weak(producer_ticket, producer_ticket + 1);
\* a failure (the value differs, or a spurious failure of the weak form) loads
\* the current _tail into producer_ticket and repeats Step 2
Q_try_push_Step3(t) ==
    /\ q_pc[t] = "tpush3"
    /\ \/ /\ q_tail = q_ticket[t]
          /\ q_tail' = q_tail + 1
          /\ q_pc' = [q_pc EXCEPT ![t] = "tpush4"]
          /\ q_calls' = [q_calls EXCEPT ![q_op[t]].ticket = q_ticket[t],
                                         ![q_op[t]].pre = QReturned]
          /\ UNCHANGED q_ticket
       \/ /\ q_ticket' = [q_ticket EXCEPT ![t] = q_tail]
          /\ q_pc' = [q_pc EXCEPT ![t] = "tpush2"]
          /\ q_calls' = QCasFailed(t)
          /\ UNCHANGED q_tail
    /\ UNCHANGED <<QOthers, q_CAPACITY, q_run, q_head, q_expected, q_data, q_size, q_op, q_live, q_used, q_seq>>

\* Step 4: construct the element in the slot
Q_try_push_Step4(t) ==
    /\ q_pc[t] = "tpush4"
    /\ QConstruct(t)
    /\ q_pc' = [q_pc EXCEPT ![t] = "tpush5"]
    /\ UNCHANGED <<QOthers, q_CAPACITY, q_run, q_head, q_tail, q_expected, q_size,
                   q_ticket, q_op, q_calls, q_used, q_seq>>

\* Step 5: slot._expected_ticket.store(producer_ticket + 1)
Q_try_push_Step5(t) ==
    /\ q_pc[t] = "tpush5"
    /\ q_expected' = [q_expected EXCEPT ![QSlot(q_ticket[t])] = q_ticket[t] + 1]
    /\ q_pc' = [q_pc EXCEPT ![t] = "tpush6"]
    /\ UNCHANGED <<QOthers, q_CAPACITY, q_run, q_head, q_tail, q_data, q_size,
                   q_ticket, q_op, q_calls, q_live, q_used, q_seq>>

\* ++_size; Step 6: return true
Q_try_push_Size(t) ==
    /\ q_pc[t] = "tpush6"
    /\ q_size' = q_size + 1
    /\ QReturn(t, "ok", QValueOf(q_op[t]))
    /\ UNCHANGED <<QOthers, q_CAPACITY, q_run, q_head, q_tail, q_expected, q_data,
                   q_ticket, q_op, q_live, q_used, q_seq>>

\* ------------------------------------------------------------- try_pop
\* Step 1: consumer_ticket = _head.load()
Q_try_pop_Step1(t) ==
    /\ QIssue(t, "try_pop", "tpop2", q_head, FALSE)
    /\ UNCHANGED <<QOthers, q_CAPACITY, q_run, q_head, q_tail, q_expected, q_data, q_size, q_live>>

\* Step 2: if (consumer_ticket == _tail.load()) return std::nullopt;
Q_try_pop_Step2(t) ==
    /\ q_pc[t] = "tpop2"
    /\ IF q_ticket[t] = q_tail
       THEN /\ q_pc' = [q_pc EXCEPT ![t] = "idle"]
            /\ q_calls' = [q_calls EXCEPT ![q_op[t]].state = "fail",
                                           ![q_op[t]].val = Garbage,
                                           ![q_op[t]].retried = FALSE,
                                           ![q_op[t]].why = QWhyNone(t)]
       ELSE /\ q_pc' = [q_pc EXCEPT ![t] = "tpop3"]
            /\ UNCHANGED q_calls
    /\ UNCHANGED <<QOthers, q_CAPACITY, q_run, q_head, q_tail, q_expected, q_data, q_size,
                   q_ticket, q_op, q_live, q_used, q_seq>>

\* a try_pop whose Step 3 compares the mark with the EMPTY mark of its ticket:
\* if (slot._expected_ticket.load() != consumer_ticket) return std::nullopt;
Q_try_pop_Step3_EmptyMark(t) ==
    /\ q_pc[t] = "tpop3"
    /\ IF q_expected[QSlot(q_ticket[t])] # q_ticket[t]
       THEN /\ q_pc' = [q_pc EXCEPT ![t] = "idle"]
            /\ q_calls' = [QChecked(t) EXCEPT ![q_op[t]].state = "fail",
                                               ![q_op[t]].val = Garbage,
                                               ![q_op[t]].retried = FALSE,
                                               ![q_op[t]].why = QWhyNone(t)]
       ELSE /\ q_pc' = [q_pc EXCEPT ![t] = "tpop4"]
            /\ q_calls' = QChecked(t)
    /\ UNCHANGED <<QOthers, q_CAPACITY, q_run, q_head, q_tail, q_expected, q_data, q_size,
                   q_ticket, q_op, q_live, q_used, q_seq>>

\* Step 3: if (slot._expected_ticket.load() != consumer_ticket + 1) return std::nullopt;
Q_try_pop_Step3(t) ==
    /\ q_pc[t] = "tpop3"
    /\ IF q_expected[QSlot(q_ticket[t])] # q_ticket[t] + 1
       THEN /\ q_pc' = [q_pc EXCEPT ![t] = "idle"]
            /\ q_calls' = [QChecked(t) EXCEPT ![q_op[t]].state = "fail",
                                               ![q_op[t]].val = Garbage,
                                               ![q_op[t]].retried = FALSE,
                                               ![q_op[t]].why = QWhyNone(t)]
       ELSE /\ q_pc' = [q_pc EXCEPT ![t] = "tpop4"]
            /\ q_calls' = QChecked(t)
    /\ UNCHANGED <<QOthers, q_CAPACITY, q_run, q_head, q_tail, q_expected, q_data, q_size,
                   q_ticket, q_op, q_live, q_used, q_seq>>

\* Step 4: _head.compare_exchange_weak(consumer_ticket, consumer_ticket + 1);
\* a failure loads the current _head into consumer_ticket and repeats Step 2
Q_try_pop_Step4(t) ==
    /\ q_pc[t] = "tpop4"
    /\ \/ /\ q_head = q_ticket[t]
          /\ q_head' = q_head + 1
          /\ q_pc' = [q_pc EXCEPT ![t] = "tpop5"]
          /\ q_calls' = [q_calls EXCEPT ![q_op[t]].ticket = q_ticket[t],
                                         ![q_op[t]].pre = QReturned]
          /\ UNCHANGED q_ticket
       \/ /\ q_ticket' = [q_ticket EXCEPT ![t] = q_head]
          /\ q_pc' = [q_pc EXCEPT ![t] = "tpop2"]
          /\ q_calls' = QCasFailed(t)
          /\ UNCHANGED q_head
    /\ UNCHANGED <<QOthers, q_CAPACITY, q_run, q_tail, q_expected, q_data, q_size, q_op, q_live, q_used, q_seq>>

\* Steps 5 and 6: move the element out and destroy the residue
Q_try_pop_Step5(t) ==
    /\ q_pc[t] = "tpop5"
    /\ QMove(t)
    /\ q_pc' = [q_pc EXCEPT ![t] = "tpop7"]
    /\ UNCHANGED <<QOthers, q_CAPACITY, q_run, q_head, q_tail, q_expected, q_size,
                   q_ticket, q_op, q_used, q_seq>>

\* Step 7: slot._expected_ticket.store(consumer_ticket + _CAPACITY)
Q_try_pop_Step7(t) ==
    /\ q_pc[t] = "tpop7"
    /\ q_expected' = [q_expected EXCEPT ![QSlot(q_ticket[t])] =
                         q_ticket[t] + q_CAPACITY]
    /\ q_pc' = [q_pc EXCEPT ![t] = "tpop8"]
    /\ UNCHANGED <<QOthers, q_CAPACITY, q_run, q_head, q_tail, q_data, q_size,
                   q_ticket, q_op, q_calls, q_live, q_used, q_seq>>

\* --_size; Step 8: return data
Q_try_pop_Size(t) ==
    /\ q_pc[t] = "tpop8"
    /\ q_size' = q_size - 1
    /\ QReturn(t, "ok", q_calls[q_op[t]].val)
    /\ UNCHANGED <<QOthers, q_CAPACITY, q_run, q_head, q_tail, q_expected, q_data,
                   q_ticket, q_op, q_live, q_used, q_seq>>

\* the threads call the blocking push and pop only
QNextBlocking ==
    \E t \in QT :
        \/ Q_push_Step1(t) \/ Q_push_Step2(t) \/ Q_push_Step3(t)
        \/ Q_push_Step4(t) \/ Q_push_Size(t)
        \/ Q_pop_Step1(t) \/ Q_pop_Step2(t) \/ Q_pop_Step3(t)
        \/ Q_pop_Step5(t) \/ Q_pop_Size(t)

\* the threads call push, pop, try_push and try_pop
QNext ==
    \E t \in QT :
        \/ Q_push_Step1(t) \/ Q_push_Step2(t) \/ Q_push_Step3(t)
        \/ Q_push_Step4(t) \/ Q_push_Size(t)
        \/ Q_pop_Step1(t) \/ Q_pop_Step2(t) \/ Q_pop_Step3(t)
        \/ Q_pop_Step5(t) \/ Q_pop_Size(t)
        \/ Q_try_push_Step1(t) \/ Q_try_push_Step2(t) \/ Q_try_push_Step3(t)
        \/ Q_try_push_Step4(t) \/ Q_try_push_Step5(t) \/ Q_try_push_Size(t)
        \/ Q_try_pop_Step1(t) \/ Q_try_pop_Step2(t) \/ Q_try_pop_Step3(t)
        \/ Q_try_pop_Step4(t) \/ Q_try_pop_Step5(t) \/ Q_try_pop_Step7(t)
        \/ Q_try_pop_Size(t)

\* ------------------------------------------------- reading the history
QIsPush(i) == q_calls[i].kind \in {"push", "try_push"}
QIsPop(i) == q_calls[i].kind \in {"pop", "try_pop"}
\* the pushes and the pops that returned with success
QPushesOk == { i \in 1..Len(q_calls) : QIsPush(i) /\ q_calls[i].state = "ok" }
QPopsOk == { i \in 1..Len(q_calls) : QIsPop(i) /\ q_calls[i].state = "ok" }
\* the pushes that reserved a ticket: they construct their value in a slot
QPushesReserved == { i \in 1..Len(q_calls) : QIsPush(i) /\ q_calls[i].ticket # NoTicket }
QIdle == \A t \in QT : q_pc[t] = "idle"

\* the elements a FIFO queue holds after the first n calls of the history
RECURSIVE QHeld(_)
QHeld(n) ==
    IF n = 0 THEN <<>>
    ELSE LET c == q_calls[n]
             h == QHeld(n - 1)
         IN  IF c.state # "ok" THEN h
             ELSE IF c.kind \in {"push", "try_push"} THEN Append(h, c.val)
             ELSE IF h = <<>> THEN h ELSE Tail(h)

\* ================================================================
\* Ring SPSC queue (Concurrent_Queue_LF_Ring_SPSC.hpp)
\* one producer thread and one consumer thread
\* ================================================================
\* Slot& slot = _slots[_tail & _MASK];   (push)
S_push_Slot == MaskIndex(s_tail, s_CAPACITY)

\* a pop that binds the slot after the one of _head
S_pop_Slot_NextSlot == MaskIndex(s_head + 1, s_CAPACITY)

\* Slot& slot = _slots[_head & _MASK];   (pop)
S_pop_Slot == MaskIndex(s_head, s_CAPACITY)

\* the k-th push supplies the value k - 1: 0, 1, 2, ...
SValueOf(k) == k - 1

\* what the move-out reads from slot i: the object the push constructed there,
\* or, when the storage holds no live object or the producer is writing it at
\* the same time (a data race), the stale bytes or anything else
SMoveOut(i) ==
    IF s_data[i].live /\ ~(s_ppc \in {"push2", "push3"} /\ S_push_Slot = i)
    THEN {s_data[i].val}
    ELSE {s_data[i].val, Garbage}

SInit ==
    /\ s_CAPACITY \in { pow2_size(k) : k \in 0..MaxCapPow2 }
    /\ s_head = 0
    /\ s_tail = 0
    /\ s_expected = [i \in 0..(s_CAPACITY - 1) |-> i]
    /\ s_data = [i \in 0..(s_CAPACITY - 1) |-> [val |-> Garbage, live |-> FALSE]]
    /\ s_ppc = "idle"
    /\ s_cpc = "idle"
    /\ s_pval = Garbage
    /\ s_cval = Garbage
    /\ s_pushes = 0
    /\ s_pops = 0
    /\ s_inorder = TRUE
    /\ s_live = 0
    /\ s_trips = TRUE

\* ---------------------------------------------------------------- push
\* the producer calls push(data) and binds the slot of _tail
S_push_Enter ==
    /\ s_ppc = "idle"
    /\ s_pushes < SMaxPushes
    /\ s_ppc' = "push1"
    /\ s_pval' = SValueOf(s_pushes + 1)
    /\ s_pushes' = s_pushes + 1
    /\ s_trips' = (s_trips /\ s_cpc = "idle" /\ s_pops = s_pushes)
    /\ UNCHANGED <<SOthers, s_CAPACITY, s_head, s_tail, s_expected, s_data, s_cpc,
                   s_cval, s_pops, s_inorder, s_live>>

\* Step 1: while (slot._expected_ticket.load() != _tail);
S_push_Step1 ==
    /\ s_ppc = "push1"
    /\ s_expected[S_push_Slot] = s_tail
    /\ s_ppc' = "push2"
    /\ UNCHANGED <<SOthers, s_CAPACITY, s_head, s_tail, s_expected, s_data, s_cpc,
                   s_pval, s_cval, s_pushes, s_pops, s_inorder, s_live, s_trips>>

\* Step 2: ::new (slot.to_ptr()) T(data)
S_push_Step2 ==
    /\ s_ppc = "push2"
    /\ s_data' = [s_data EXCEPT ![S_push_Slot] = [val |-> s_pval, live |-> TRUE]]
    /\ s_live' = s_live + 1
    /\ s_ppc' = "push3"
    /\ UNCHANGED <<SOthers, s_CAPACITY, s_head, s_tail, s_expected, s_cpc,
                   s_pval, s_cval, s_pushes, s_pops, s_inorder, s_trips>>

\* Step 3: slot._expected_ticket.store(_tail + 1)
S_push_Step3 ==
    /\ s_ppc = "push3"
    /\ s_expected' = [s_expected EXCEPT ![S_push_Slot] = s_tail + 1]
    /\ s_ppc' = "push4"
    /\ UNCHANGED <<SOthers, s_CAPACITY, s_head, s_tail, s_data, s_cpc,
                   s_pval, s_cval, s_pushes, s_pops, s_inorder, s_live, s_trips>>

\* Step 4: ++_tail; and the call returns
S_push_Step4 ==
    /\ s_ppc = "push4"
    /\ s_tail' = s_tail + 1
    /\ s_ppc' = "idle"
    /\ UNCHANGED <<SOthers, s_CAPACITY, s_head, s_expected, s_data, s_cpc,
                   s_pval, s_cval, s_pushes, s_pops, s_inorder, s_live, s_trips>>

\* ----------------------------------------------------------------- pop
\* the consumer calls pop() and binds the slot of _head
S_pop_Enter ==
    /\ s_cpc = "idle"
    /\ s_pops < SMaxPushes
    /\ s_cpc' = "pop1"
    /\ s_trips' = (s_trips /\ s_ppc = "idle" /\ s_pushes = s_pops + 1)
    /\ UNCHANGED <<SOthers, s_CAPACITY, s_head, s_tail, s_expected, s_data, s_ppc,
                   s_pval, s_cval, s_pushes, s_pops, s_inorder, s_live>>

\* Step 1: while (slot._expected_ticket.load() != _head + 1);
S_pop_Step1 ==
    /\ s_cpc = "pop1"
    /\ s_expected[S_pop_Slot] = s_head + 1
    /\ s_cpc' = "pop2"
    /\ UNCHANGED <<SOthers, s_CAPACITY, s_head, s_tail, s_expected, s_data, s_ppc,
                   s_pval, s_cval, s_pushes, s_pops, s_inorder, s_live, s_trips>>

\* Steps 2 and 3: std::optional<T> data{ std::move(*ptr) }; ptr->~T();
S_pop_Step2 ==
    /\ s_cpc = "pop2"
    /\ s_cval' \in SMoveOut(S_pop_Slot)
    /\ s_data' = [s_data EXCEPT ![S_pop_Slot].live = FALSE]
    /\ s_live' = IF s_data[S_pop_Slot].live THEN s_live - 1 ELSE s_live
    /\ s_cpc' = "pop4"
    /\ UNCHANGED <<SOthers, s_CAPACITY, s_head, s_tail, s_expected, s_ppc,
                   s_pval, s_pushes, s_pops, s_inorder, s_trips>>

\* Step 4: slot._expected_ticket.store(_head + _CAPACITY)
S_pop_Step4 ==
    /\ s_cpc = "pop4"
    /\ s_expected' = [s_expected EXCEPT ![S_pop_Slot] = s_head + s_CAPACITY]
    /\ s_cpc' = "pop5"
    /\ UNCHANGED <<SOthers, s_CAPACITY, s_head, s_tail, s_data, s_ppc,
                   s_pval, s_cval, s_pushes, s_pops, s_inorder, s_live, s_trips>>

\* Steps 5 and 6: ++_head; return data;
S_pop_Step5 ==
    /\ s_cpc = "pop5"
    /\ s_head' = s_head + 1
    /\ s_pops' = s_pops + 1
    /\ s_inorder' = (s_inorder /\ s_cval = SValueOf(s_pops + 1))
    /\ s_cpc' = "idle"
    /\ UNCHANGED <<SOthers, s_CAPACITY, s_tail, s_expected, s_data, s_ppc,
                   s_pval, s_cval, s_pushes, s_live, s_trips>>

SNext ==
    \/ S_push_Enter \/ S_push_Step1 \/ S_push_Step2 \/ S_push_Step3
    \/ S_push_Step4
    \/ S_pop_Enter \/ S_pop_Step1 \/ S_pop_Step2 \/ S_pop_Step4
    \/ S_pop_Step5

\* the producer, or the consumer, spins on a slot that no running call will
\* ever publish for it
SPushBlocked == s_ppc = "push1" /\ s_expected[S_push_Slot] # s_tail
SPopBlocked == s_cpc = "pop1" /\ s_expected[S_pop_Slot] # s_head + 1

\* no element resides in the queue
SEmpty == s_head = s_tail /\ s_live = 0

\* ================================================================
\* Ring ticket stack (Concurrent_Stack_LF_Ring_Ticket_MPMC.hpp)
\* ================================================================
KT == 1..(IF KBlockingThreads > KThreads THEN KBlockingThreads ELSE KThreads)

\* the value a push call supplies: each call pushes a value of its own
KValueOf(id) == id

\* slot_index = top_ticket & _MASK
KSlot(ticket) == MaskIndex(ticket, k_CAPACITY)

\* a pop that takes old_top itself as its ticket
K_pop_Ticket_OldTop(old_top) == old_top

\* const std::uint64_t top_ticket = old_top - 1;   (pop)
K_pop_Ticket(old_top) == old_top - 1

KIssued == Len(k_calls)

KNewCall(kind) ==
    [kind |-> kind, state |-> "run", val |-> Garbage,
     inv |-> k_clock + 1, ret |-> NoTicket]

\* threads that are between the construction and the publication of slot i
KWriters(i) ==
    { u \in KT : k_pc[u] \in {"push3", "push4", "tpush3", "tpush4"}
                 /\ KSlot(k_ticket[u]) = i }

\* what a move-out may read from slot i: the object a push constructed there,
\* or, when the storage holds no live object or a producer is writing it at the
\* same time (a data race), the stale bytes or anything else
KMoveOut(i) ==
    IF k_data[i].live /\ KWriters(i) = {}
    THEN {k_data[i].val}
    ELSE {k_data[i].val, Garbage}

KInitState ==
    /\ k_CAPACITY \in { pow2_size(k) : k \in 0..KMaxCapPow2 }
    /\ k_top = 0
    /\ k_expected = [i \in 0..(k_CAPACITY - 1) |-> i]
    /\ k_data = [i \in 0..(k_CAPACITY - 1) |-> [val |-> Garbage, live |-> FALSE]]
    /\ k_pc = [t \in KT |-> "idle"]
    /\ k_ticket = [t \in KT |-> NoTicket]
    /\ k_op = [t \in KT |-> NoOp]
    /\ k_calls = <<>>
    /\ k_clock = 0
    /\ k_live = 0
    /\ k_used = 0

\* several threads issue KMaxOps calls between them, or one thread issues
\* KSeqOps calls
KInit ==
    /\ KInitState
    /\ k_run \in { [threads |-> KThreads, calls |-> KMaxOps],
                   [threads |-> 1, calls |-> KSeqOps] }

\* a call is issued: the thread leaves "idle". The threads are interchangeable:
\* they are numbered in the order of their first call.
KIssue(t, kind) ==
    /\ k_pc[t] = "idle"
    /\ KIssued < k_run.calls
    /\ t <= k_run.threads
    /\ t <= k_used + 1
    /\ k_used' = IF t > k_used THEN t ELSE k_used
    /\ k_op' = [k_op EXCEPT ![t] = KIssued + 1]

\* the call of thread t returns
KReturn(t, state, val) ==
    /\ k_pc' = [k_pc EXCEPT ![t] = "idle"]
    /\ k_calls' = [k_calls EXCEPT ![k_op[t]].state = state,
                                   ![k_op[t]].val = val,
                                   ![k_op[t]].ret = k_clock + 1]
    /\ k_clock' = k_clock + 1

\* ::new (slot.to_ptr()) T(data)
KConstruct(t) ==
    /\ k_data' = [k_data EXCEPT ![KSlot(k_ticket[t])] =
                     [val |-> KValueOf(k_op[t]), live |-> TRUE]]
    /\ k_live' = k_live + 1

\* std::optional<T> data{std::move(*ptr)}; ptr->~T();
KMove(t) ==
    LET i == KSlot(k_ticket[t]) IN
    /\ \E v \in KMoveOut(i) :
          k_calls' = [k_calls EXCEPT ![k_op[t]].val = v]
    /\ k_data' = [k_data EXCEPT ![i].live = FALSE]
    /\ k_live' = IF k_data[i].live THEN k_live - 1 ELSE k_live

\* ---------------------------------------------------------------- push
\* top_ticket = _top.fetch_add(1)
K_push_Reserve(t) ==
    /\ KIssue(t, "push")
    /\ k_calls' = Append(k_calls, KNewCall("push"))
    /\ k_clock' = k_clock + 1
    /\ k_ticket' = [k_ticket EXCEPT ![t] = k_top]
    /\ k_top' = k_top + 1
    /\ k_pc' = [k_pc EXCEPT ![t] = "push2"]
    /\ UNCHANGED <<KOthers, k_CAPACITY, k_run, k_expected, k_data, k_live>>

\* while (slot._expected_ticket.load() != top_ticket);
K_push_Wait(t) ==
    /\ k_pc[t] = "push2"
    /\ k_expected[KSlot(k_ticket[t])] = k_ticket[t]
    /\ k_pc' = [k_pc EXCEPT ![t] = "push3"]
    /\ UNCHANGED <<KOthers, k_CAPACITY, k_run, k_top, k_expected, k_data,
                   k_ticket, k_op, k_calls, k_clock, k_live, k_used>>

\* ::new (slot.to_ptr()) T(std::forward<U>(data));
K_push_Construct(t) ==
    /\ k_pc[t] = "push3"
    /\ KConstruct(t)
    /\ k_pc' = [k_pc EXCEPT ![t] = "push4"]
    /\ UNCHANGED <<KOthers, k_CAPACITY, k_run, k_top, k_expected,
                   k_ticket, k_op, k_calls, k_clock, k_used>>

\* slot._expected_ticket.store(top_ticket + 1); and the call returns
K_push_Publish(t) ==
    /\ k_pc[t] = "push4"
    /\ k_expected' = [k_expected EXCEPT ![KSlot(k_ticket[t])] = k_ticket[t] + 1]
    /\ KReturn(t, "ok", KValueOf(k_op[t]))
    /\ UNCHANGED <<KOthers, k_CAPACITY, k_run, k_top, k_data,
                   k_ticket, k_op, k_live, k_used>>

\* ----------------------------------------------------------------- pop
\* old_top = _top.load(); if (old_top == 0) return std::nullopt;
K_pop_Load(t) ==
    /\ KIssue(t, "pop")
    /\ k_ticket' = [k_ticket EXCEPT ![t] = k_top]
    /\ IF k_top = 0
       THEN /\ k_calls' = Append(k_calls,
                 [KNewCall("pop") EXCEPT !.state = "fail", !.ret = k_clock + 2])
            /\ k_clock' = k_clock + 2
            /\ UNCHANGED k_pc
       ELSE /\ k_calls' = Append(k_calls, KNewCall("pop"))
            /\ k_clock' = k_clock + 1
            /\ k_pc' = [k_pc EXCEPT ![t] = "pop2"]
    /\ UNCHANGED <<KOthers, k_CAPACITY, k_run, k_top, k_expected, k_data, k_live>>

\* _top.compare_exchange_strong(old_top, old_top - 1): on success the thread
\* owns top_ticket = old_top - 1; on failure old_top is reloaded and tested
\* against 0 again
K_pop_CAS(t) ==
    /\ k_pc[t] = "pop2"
    /\ IF k_top = k_ticket[t]
       THEN /\ k_top' = k_ticket[t] - 1
            /\ k_ticket' = [k_ticket EXCEPT ![t] = K_pop_Ticket(k_ticket[t])]
            /\ k_pc' = [k_pc EXCEPT ![t] = "pop3"]
            /\ UNCHANGED <<k_calls, k_clock>>
       ELSE /\ k_ticket' = [k_ticket EXCEPT ![t] = k_top]
            /\ UNCHANGED k_top
            /\ IF k_top = 0
               THEN KReturn(t, "fail", Garbage)
               ELSE UNCHANGED <<k_pc, k_calls, k_clock>>
    /\ UNCHANGED <<KOthers, k_CAPACITY, k_run, k_expected, k_data,
                   k_op, k_live, k_used>>

\* while (slot._expected_ticket.load() != top_ticket + 1);
K_pop_Wait(t) ==
    /\ k_pc[t] = "pop3"
    /\ k_expected[KSlot(k_ticket[t])] = k_ticket[t] + 1
    /\ k_pc' = [k_pc EXCEPT ![t] = "pop4"]
    /\ UNCHANGED <<KOthers, k_CAPACITY, k_run, k_top, k_expected, k_data,
                   k_ticket, k_op, k_calls, k_clock, k_live, k_used>>

\* move the data and destroy in place
K_pop_Move(t) ==
    /\ k_pc[t] = "pop4"
    /\ KMove(t)
    /\ k_pc' = [k_pc EXCEPT ![t] = "pop5"]
    /\ UNCHANGED <<KOthers, k_CAPACITY, k_run, k_top, k_expected,
                   k_ticket, k_op, k_clock, k_used>>

\* slot._expected_ticket.store(top_ticket + capacity); return data;
K_pop_Publish(t) ==
    /\ k_pc[t] = "pop5"
    /\ k_expected' = [k_expected EXCEPT ![KSlot(k_ticket[t])] =
                         k_ticket[t] + k_CAPACITY]
    /\ KReturn(t, "ok", k_calls[k_op[t]].val)
    /\ UNCHANGED <<KOthers, k_CAPACITY, k_run, k_top, k_data,
                   k_ticket, k_op, k_live, k_used>>

\* ------------------------------------------------------------ try_push
\* top_ticket = _top.fetch_add(1)
K_try_push_Reserve(t) ==
    /\ KIssue(t, "try_push")
    /\ k_calls' = Append(k_calls, KNewCall("try_push"))
    /\ k_clock' = k_clock + 1
    /\ k_ticket' = [k_ticket EXCEPT ![t] = k_top]
    /\ k_top' = k_top + 1
    /\ k_pc' = [k_pc EXCEPT ![t] = "tpush2"]
    /\ UNCHANGED <<KOthers, k_CAPACITY, k_run, k_expected, k_data, k_live>>

\* if (slot._expected_ticket.load() != top_ticket) return false;
K_try_push_Check(t) ==
    /\ k_pc[t] = "tpush2"
    /\ IF k_expected[KSlot(k_ticket[t])] # k_ticket[t]
       THEN KReturn(t, "fail", Garbage)
       ELSE /\ k_pc' = [k_pc EXCEPT ![t] = "tpush3"]
            /\ UNCHANGED <<k_calls, k_clock>>
    /\ UNCHANGED <<KOthers, k_CAPACITY, k_run, k_top, k_expected, k_data,
                   k_ticket, k_op, k_live, k_used>>

\* ::new (slot.to_ptr()) T(std::forward<U>(data));
K_try_push_Construct(t) ==
    /\ k_pc[t] = "tpush3"
    /\ KConstruct(t)
    /\ k_pc' = [k_pc EXCEPT ![t] = "tpush4"]
    /\ UNCHANGED <<KOthers, k_CAPACITY, k_run, k_top, k_expected,
                   k_ticket, k_op, k_calls, k_clock, k_used>>

\* slot._expected_ticket.store(top_ticket + 1); return true;
K_try_push_Publish(t) ==
    /\ k_pc[t] = "tpush4"
    /\ k_expected' = [k_expected EXCEPT ![KSlot(k_ticket[t])] = k_ticket[t] + 1]
    /\ KReturn(t, "ok", KValueOf(k_op[t]))
    /\ UNCHANGED <<KOthers, k_CAPACITY, k_run, k_top, k_data,
                   k_ticket, k_op, k_live, k_used>>

\* ------------------------------------------------------------- try_pop
\* top_ticket = _top.fetch_add(1)
K_try_pop_Reserve(t) ==
    /\ KIssue(t, "try_pop")
    /\ k_calls' = Append(k_calls, KNewCall("try_pop"))
    /\ k_clock' = k_clock + 1
    /\ k_ticket' = [k_ticket EXCEPT ![t] = k_top]
    /\ k_top' = k_top + 1
    /\ k_pc' = [k_pc EXCEPT ![t] = "tpop2"]
    /\ UNCHANGED <<KOthers, k_CAPACITY, k_run, k_expected, k_data, k_live>>

\* if (slot._expected_ticket.load() != top_ticket + 1) return std::nullopt;
K_try_pop_Check(t) ==
    /\ k_pc[t] = "tpop2"
    /\ IF k_expected[KSlot(k_ticket[t])] # k_ticket[t] + 1
       THEN KReturn(t, "fail", Garbage)
       ELSE /\ k_pc' = [k_pc EXCEPT ![t] = "tpop3"]
            /\ UNCHANGED <<k_calls, k_clock>>
    /\ UNCHANGED <<KOthers, k_CAPACITY, k_run, k_top, k_expected, k_data,
                   k_ticket, k_op, k_live, k_used>>

\* move the data and destroy in place
K_try_pop_Move(t) ==
    /\ k_pc[t] = "tpop3"
    /\ KMove(t)
    /\ k_pc' = [k_pc EXCEPT ![t] = "tpop4"]
    /\ UNCHANGED <<KOthers, k_CAPACITY, k_run, k_top, k_expected,
                   k_ticket, k_op, k_clock, k_used>>

\* slot._expected_ticket.store(top_ticket + capacity); return data;
K_try_pop_Publish(t) ==
    /\ k_pc[t] = "tpop4"
    /\ k_expected' = [k_expected EXCEPT ![KSlot(k_ticket[t])] =
                         k_ticket[t] + k_CAPACITY]
    /\ KReturn(t, "ok", k_calls[k_op[t]].val)
    /\ UNCHANGED <<KOthers, k_CAPACITY, k_run, k_top, k_data,
                   k_ticket, k_op, k_live, k_used>>

KNext ==
    \E t \in KT :
        \/ K_push_Reserve(t) \/ K_push_Wait(t) \/ K_push_Construct(t)
        \/ K_push_Publish(t)
        \/ K_pop_Load(t) \/ K_pop_CAS(t) \/ K_pop_Wait(t) \/ K_pop_Move(t)
        \/ K_pop_Publish(t)
        \/ K_try_push_Reserve(t) \/ K_try_push_Check(t)
        \/ K_try_push_Construct(t) \/ K_try_push_Publish(t)
        \/ K_try_pop_Reserve(t) \/ K_try_pop_Check(t) \/ K_try_pop_Move(t)
        \/ K_try_pop_Publish(t)

\* the threads call the blocking push and pop only
KNextBlocking ==
    \E t \in KT :
        \/ K_push_Reserve(t) \/ K_push_Wait(t) \/ K_push_Construct(t)
        \/ K_push_Publish(t)
        \/ K_pop_Load(t) \/ K_pop_CAS(t) \/ K_pop_Wait(t) \/ K_pop_Move(t)
        \/ K_pop_Publish(t)

\* ------------------------------------------------ reading the history
KCalls == 1..Len(k_calls)
KDone(i) == k_calls[i].state # "run"
KIsPopKind(i) == k_calls[i].kind \in {"pop", "try_pop"}
KPushOk(i) == k_calls[i].kind \in {"push", "try_push"} /\ k_calls[i].state = "ok"

\* call i had returned before call j was issued
KBefore(i, j) == KDone(i) /\ k_calls[i].ret < k_calls[j].inv

\* call c ran at some instant between the return of call i and the issue of
\* call j
KBetween(c, i, j) ==
    /\ ~(KDone(c) /\ k_calls[c].ret < k_calls[i].ret)
    /\ k_calls[c].inv < k_calls[j].inv

\* call c ran at some instant between the issue of call i and the return of
\* call j
KDuring(c, i, j) == ~KBefore(c, i) /\ k_calls[c].inv < k_calls[j].ret

\* no call was ever issued while another one ran
KSequential == \A i, j \in KCalls : i < j => KBefore(i, j)

\* the calls so far are the first calls of push, push, push, pop, pop, pop
\* issued one after the other
KThreePushesThenPops ==
    /\ KSequential
    /\ Len(k_calls) <= 6
    /\ \A i \in KCalls : k_calls[i].kind = (IF i <= 3 THEN "push" ELSE "pop")

\* a thread spins on a slot whose mark differs from the one it waits for
KBlocked(t) ==
    \/ k_pc[t] = "push2" /\ k_expected[KSlot(k_ticket[t])] # k_ticket[t]
    \/ k_pc[t] = "pop3" /\ k_expected[KSlot(k_ticket[t])] # k_ticket[t] + 1

\* ================================================================
\* Hazard-protected linked stack (Concurrent_Stack_LF_Linked_Hazard_MPMC.hpp)
\* and the hazard registry (Hazard_Ptr.hpp)
\* ================================================================
HT == 1..(IF HAcquirers > HThreads THEN HAcquirers ELSE HThreads)

\* nullptr, and the addresses of the nodes
Null == 1 - 1
HNodes == 1..HMaxNodes

\* std::thread::id{}: the id of no thread
EmptyTid == 1 - 1

\* std::nullopt
None == 0 - 1

HRecords == 0..(HAZARD_PTR_RECORD_COUNT - 1)

\* RECLAIM_THRESHOLD = HAZARD_PTR_RECORD_COUNT / 2
RECLAIM_THRESHOLD == HAZARD_PTR_RECORD_COUNT \div 2

\* the value a push call supplies: each call pushes a value of its own
HValueOf(id) == id

HIssued == Len(h_calls)

HNoLocals ==
    [op |-> NoOp, rec |-> NoTicket, old |-> Null, temp |-> Null, nxt |-> Null,
     new |-> Null, exp |-> EmptyTid, idx |-> 0, seen |-> {}, data |-> None]

HInit ==
    /\ h_head = Null
    /\ h_node = [n \in HNodes |-> [next |-> Null, data |-> None, live |-> FALSE]]
    /\ h_owner = [r \in HRecords |-> EmptyTid]
    /\ h_ptr = [r \in HRecords |-> Null]
    /\ h_sb = [t \in HT |-> <<>>]
    /\ h_retired = [t \in HT |-> <<>>]
    /\ h_pc = [t \in HT |-> "idle"]
    /\ h_loc = [t \in HT |-> HNoLocals]
    /\ h_calls = <<>>
    /\ h_uaf = FALSE
    /\ h_used = 0

\* ------------------------------------------- stores to the hazard records
\* The stores of protect, clear and reset are memory_order_release and the
\* loads that follow them are memory_order_acquire: nothing orders such a
\* store before a later load of another location, so the store may become
\* visible to the other threads after the load has been performed.  A store
\* waits in the buffer of its thread (oldest first); the thread itself reads
\* its own latest store; a read-modify-write is performed only with the
\* buffer drained.

\* thread t stores val to the field of record r
HStore(t, r, field, val) ==
    IF h_run.buffered
    THEN /\ Len(h_sb[t]) < HMaxBuffer
         /\ h_sb' = [h_sb EXCEPT ![t] = Append(@, [rec |-> r, field |-> field, val |-> val])]
         /\ UNCHANGED <<h_owner, h_ptr>>
    ELSE /\ h_owner' = IF field = "owner" THEN [h_owner EXCEPT ![r] = val] ELSE h_owner
         /\ h_ptr' = IF field = "ptr" THEN [h_ptr EXCEPT ![r] = val] ELSE h_ptr
         /\ UNCHANGED h_sb

\* the latest store of thread t to the field of record r that is still in
\* its buffer (0 if none)
HPending(t, r, field) ==
    LET hits == { i \in 1..Len(h_sb[t]) :
                    h_sb[t][i].rec = r /\ h_sb[t][i].field = field }
    IN  IF hits = {} THEN 0 ELSE CHOOSE i \in hits : \A j \in hits : j <= i

\* what thread t reads from the field of record r
HLoadOwner(t, r) ==
    IF HPending(t, r, "owner") # 0
    THEN h_sb[t][HPending(t, r, "owner")].val ELSE h_owner[r]

HLoadPtr(t, r) ==
    IF HPending(t, r, "ptr") # 0
    THEN h_sb[t][HPending(t, r, "ptr")].val ELSE h_ptr[r]

\* the oldest store in the buffer of thread t becomes visible
H_Flush(t) ==
    /\ h_sb[t] # <<>>
    /\ LET e == Head(h_sb[t]) IN
         /\ h_owner' = IF e.field = "owner" THEN [h_owner EXCEPT ![e.rec] = e.val]
                       ELSE h_owner
         /\ h_ptr' = IF e.field = "ptr" THEN [h_ptr EXCEPT ![e.rec] = e.val]
                     ELSE h_ptr
    /\ h_sb' = [h_sb EXCEPT ![t] = Tail(@)]
    /\ UNCHANGED <<HOthers, h_run, h_head, h_node, h_retired, h_pc, h_loc,
                   h_calls, h_uaf, h_used>>

\* a call is issued: the thread leaves "idle". The threads are interchangeable:
\* they are numbered in the order of their first call.
HIssue(t, kind, label) ==
    /\ h_pc[t] = "idle"
    /\ HIssued < HMaxOps
    /\ t <= h_used + 1
    /\ t <= h_run.threads
    /\ \A u \in HT : h_pc[u] # "destroyed"
    /\ h_used' = IF t > h_used THEN t ELSE h_used
    /\ h_pc' = [h_pc EXCEPT ![t] = label]
    /\ h_calls' = Append(h_calls,
          [kind |-> kind, thread |-> t, state |-> "run",
           val |-> IF kind = "push" THEN HValueOf(HIssued + 1) ELSE None,
           took |-> None])

\* the call of thread t returns
HReturn(t, val) ==
    /\ h_pc' = [h_pc EXCEPT ![t] = "idle"]
    /\ h_calls' = [h_calls EXCEPT ![h_loc[t].op].state = "done",
                                   ![h_loc[t].op].val = val]

\* ---------------------------------------------------------------- push
\* new_head = allocate(); new_head->_next = _head.load(); new_head->_data = data;
H_push_Alloc(t) ==
    /\ HIssue(t, "push", "push_cas")
    /\ \E n \in HNodes :
         /\ ~h_node[n].live
         /\ h_node' = [h_node EXCEPT ![n] =
               [next |-> h_head, data |-> HValueOf(HIssued + 1), live |-> TRUE]]
         /\ h_loc' = [h_loc EXCEPT ![t] =
               [HNoLocals EXCEPT !.op = HIssued + 1, !.new = n]]
    /\ UNCHANGED <<HOthers, h_run, h_head, h_owner, h_ptr, h_sb, h_retired, h_uaf>>

\* while (!_head.compare_exchange_weak(new_head->_next, new_head));
\* a failure stores the current _head into new_head->_next
H_push_CAS(t) ==
    /\ h_pc[t] = "push_cas"
    /\ h_sb[t] = <<>>
    /\ LET n == h_loc[t].new IN
         IF h_head = h_node[n].next
         THEN /\ h_head' = n
              /\ HReturn(t, h_calls[h_loc[t].op].val)
              /\ UNCHANGED h_node
         ELSE /\ h_node' = [h_node EXCEPT ![n].next = h_head]
              /\ UNCHANGED <<h_head, h_pc, h_calls>>
    /\ UNCHANGED <<HOthers, h_run, h_owner, h_ptr, h_sb, h_retired, h_loc,
                   h_uaf, h_used>>

\* ----------------------------------------------------------------- pop
\* the records thread t reads its own id from
HMine(t) == { r \in HRecords : HLoadOwner(t, r) = t }

\* _HPO hazard_ptr_owner;  acquire_hazard_ptr_record(): the find_if over the
\* records for one this thread already owns.  Only the thread itself stores
\* its id into a record, so the loads of the scan are taken in one step.
H_acquire_Find(t) ==
    /\ HIssue(t, "pop", IF HMine(t) # {} THEN "pop_load" ELSE "acquire_cas")
    /\ h_loc' = [h_loc EXCEPT ![t] =
          [HNoLocals EXCEPT
              !.op = HIssued + 1,
              !.rec = IF HMine(t) # {}
                      THEN CHOOSE r \in HMine(t) : \A q \in HMine(t) : r <= q
                      ELSE NoTicket]]
    /\ UNCHANGED <<HOthers, h_run, h_head, h_node, h_owner, h_ptr, h_sb,
                   h_retired, h_uaf>>

\* the loop over the records with a plain store in the place of the
\* compare-exchange: the record is taken whoever owns it
H_acquire_CAS_Blind(t) ==
    /\ h_pc[t] = "acquire_cas"
    /\ h_sb[t] = <<>>
    /\ h_owner' = [h_owner EXCEPT ![h_loc[t].idx] = t]
    /\ h_loc' = [h_loc EXCEPT ![t].rec = h_loc[t].idx]
    /\ h_pc' = [h_pc EXCEPT ![t] = "pop_load"]
    /\ UNCHANGED <<HOthers, h_run, h_head, h_node, h_ptr, h_sb, h_retired,
                   h_calls, h_uaf, h_used>>

\* the loop over the records:
\* hazard_ptr_record._owner_thread.compare_exchange_strong(empty_tid, this_tid);
\* a failure stores the owner it found into empty_tid, which the next
\* iteration passes as the expected value; std::terminate() after the last
\* record
H_acquire_CAS(t) ==
    /\ h_pc[t] = "acquire_cas"
    /\ h_sb[t] = <<>>
    /\ LET r == h_loc[t].idx IN
         IF h_owner[r] = h_loc[t].exp
         THEN /\ h_owner' = [h_owner EXCEPT ![r] = t]
              /\ h_loc' = [h_loc EXCEPT ![t].rec = r]
              /\ h_pc' = [h_pc EXCEPT ![t] = "pop_load"]
         ELSE /\ h_loc' = [h_loc EXCEPT ![t].exp = h_owner[r], ![t].idx = r + 1]
              /\ h_pc' = [h_pc EXCEPT ![t] =
                    IF r + 1 = HAZARD_PTR_RECORD_COUNT THEN "terminated"
                    ELSE "acquire_cas"]
              /\ UNCHANGED h_owner
    /\ UNCHANGED <<HOthers, h_run, h_head, h_node, h_ptr, h_sb, h_retired,
                   h_calls, h_uaf, h_used>>

\* Node* old_head = _head.load();
H_pop_Load(t) ==
    /\ h_pc[t] = "pop_load"
    /\ h_loc' = [h_loc EXCEPT ![t].old = h_head]
    /\ h_pc' = [h_pc EXCEPT ![t] = "pop_protect"]
    /\ UNCHANGED <<HOthers, h_run, h_head, h_node, h_owner, h_ptr, h_sb,
                   h_retired, h_calls, h_uaf, h_used>>

\* temp = old_head; hazard_ptr_owner.protect(old_head);
H_pop_Protect(t) ==
    /\ h_pc[t] = "pop_protect"
    /\ HStore(t, h_loc[t].rec, "ptr", h_loc[t].old)
    /\ h_loc' = [h_loc EXCEPT ![t].temp = h_loc[t].old]
    /\ h_pc' = [h_pc EXCEPT ![t] = "pop_validate"]
    /\ UNCHANGED <<HOthers, h_run, h_head, h_node, h_retired, h_calls,
                   h_uaf, h_used>>

\* old_head = _head.load(); while (old_head != temp);  then the test
\* old_head && ... of the outer loop
H_pop_Validate(t) ==
    /\ h_pc[t] = "pop_validate"
    /\ h_loc' = [h_loc EXCEPT ![t].old = h_head]
    /\ h_pc' = [h_pc EXCEPT ![t] =
          IF h_head # h_loc[t].temp THEN "pop_protect"
          ELSE IF h_head = Null THEN "pop_clear"
          ELSE "pop_next"]
    /\ UNCHANGED <<HOthers, h_run, h_head, h_node, h_owner, h_ptr, h_sb,
                   h_retired, h_calls, h_uaf, h_used>>

\* the argument old_head->_next of the CAS is read: from a live node its
\* _next; from a deallocated node anything, and the read is a use after free
H_pop_Next(t) ==
    /\ h_pc[t] = "pop_next"
    /\ LET n == h_loc[t].old IN
         IF h_node[n].live
         THEN /\ h_loc' = [h_loc EXCEPT ![t].nxt = h_node[n].next]
              /\ UNCHANGED h_uaf
         ELSE /\ \E x \in HNodes \cup {Null} :
                    h_loc' = [h_loc EXCEPT ![t].nxt = x]
              /\ h_uaf' = TRUE
    /\ h_pc' = [h_pc EXCEPT ![t] = "pop_cas"]
    /\ UNCHANGED <<HOthers, h_run, h_head, h_node, h_owner, h_ptr, h_sb,
                   h_retired, h_calls, h_used>>

\* _head.compare_exchange_strong(old_head, old_head->_next): a failure loads
\* the current _head into old_head and the outer loop starts over
H_pop_CAS(t) ==
    /\ h_pc[t] = "pop_cas"
    /\ h_sb[t] = <<>>
    /\ IF h_head = h_loc[t].old
       THEN /\ h_head' = h_loc[t].nxt
            /\ h_pc' = [h_pc EXCEPT ![t] = "pop_clear"]
            /\ UNCHANGED h_loc
       ELSE /\ h_loc' = [h_loc EXCEPT ![t].old = h_head]
            /\ h_pc' = [h_pc EXCEPT ![t] = "pop_protect"]
            /\ UNCHANGED h_head
    /\ UNCHANGED <<HOthers, h_run, h_node, h_owner, h_ptr, h_sb, h_retired,
                   h_calls, h_uaf, h_used>>

\* hazard_ptr_owner.clear();  then  if (old_head)
H_pop_Clear(t) ==
    /\ h_pc[t] = "pop_clear"
    /\ HStore(t, h_loc[t].rec, "ptr", Null)
    /\ h_pc' = [h_pc EXCEPT ![t] =
          IF h_loc[t].old = Null THEN "pop_reset" ELSE "pop_move"]
    /\ UNCHANGED <<HOthers, h_run, h_head, h_node, h_retired, h_loc, h_calls,
                   h_uaf, h_used>>

\* what pop returns: the `data` declared in the function scope and
\* initialised with std::nullopt.  The `data` declared inside the if block
\* receives the element and is another object, destroyed at the end of the
\* block.
H_pop_Returned(outer, inner) == outer

\* std::optional<T> data{ std::move(old_head->_data) };   (inside the if block)
H_pop_Move(t) ==
    /\ h_pc[t] = "pop_move"
    /\ LET n == h_loc[t].old IN
         /\ \E v \in (IF h_node[n].live THEN {h_node[n].data}
                      ELSE {h_node[n].data, None}) :
               /\ h_calls' = [h_calls EXCEPT ![h_loc[t].op].took = v]
               /\ h_loc' = [h_loc EXCEPT ![t].data = H_pop_Returned(@, v)]
         /\ h_uaf' = (h_uaf \/ ~h_node[n].live)
    /\ h_pc' = [h_pc EXCEPT ![t] = "pop_retire"]
    /\ UNCHANGED <<HOthers, h_run, h_head, h_node, h_owner, h_ptr, h_sb,
                   h_retired, h_used>>

\* reclaim_memory_later: MEMORY_RECLAIMERS.push_back(...);
\* if (MEMORY_RECLAIMERS.size() >= RECLAIM_THRESHOLD) try_reclaim_memory();
H_pop_Retire(t) ==
    /\ h_pc[t] = "pop_retire"
    /\ h_retired' = [h_retired EXCEPT ![t] = Append(@, h_loc[t].old)]
    /\ IF Len(h_retired[t]) + 1 >= RECLAIM_THRESHOLD
       THEN /\ h_loc' = [h_loc EXCEPT ![t].idx = 0, ![t].seen = {}]
            /\ h_pc' = [h_pc EXCEPT ![t] = "reclaim_scan"]
       ELSE /\ h_pc' = [h_pc EXCEPT ![t] = "pop_reset"]
            /\ UNCHANGED h_loc
    /\ UNCHANGED <<HOthers, h_run, h_head, h_node, h_owner, h_ptr, h_sb,
                   h_calls, h_uaf, h_used>>

\* get_ptrs_protected_by_hazard_ptrs, one record per step: the owner is
\* loaded and, unless it is the empty id, the pointer.  A record whose owner
\* is set never shows a pointer of an earlier owner (reset clears the pointer
\* before the owner), so both loads are taken at the instant of the second.
H_reclaim_Scan(t) ==
    /\ h_pc[t] = "reclaim_scan"
    /\ LET r == h_loc[t].idx
           hit == HLoadOwner(t, r) # EmptyTid /\ HLoadPtr(t, r) # Null
       IN  /\ h_loc' = [h_loc EXCEPT
                 ![t].seen = IF hit THEN @ \cup {HLoadPtr(t, r)} ELSE @,
                 ![t].idx = r + 1]
           /\ h_pc' = [h_pc EXCEPT ![t] =
                 IF r + 1 = HAZARD_PTR_RECORD_COUNT THEN "reclaim_free"
                 ELSE "reclaim_scan"]
    /\ UNCHANGED <<HOthers, h_run, h_head, h_node, h_owner, h_ptr, h_sb,
                   h_retired, h_calls, h_uaf, h_used>>

\* a reclaim pass that does not consult the snapshot: every entry of
\* MEMORY_RECLAIMERS is deallocated and the list is left empty
H_reclaim_Free_All(t) ==
    /\ h_pc[t] = "reclaim_free"
    /\ LET list == h_retired[t]
           gone == { list[i] : i \in 1..Len(list) }
       IN  h_node' = [n \in HNodes |->
                 IF n \in gone THEN [h_node[n] EXCEPT !.live = FALSE]
                 ELSE h_node[n]]
    /\ h_retired' = [h_retired EXCEPT ![t] = <<>>]
    /\ h_pc' = [h_pc EXCEPT ![t] = "pop_reset"]
    /\ UNCHANGED <<HOthers, h_run, h_head, h_owner, h_ptr, h_sb, h_loc,
                   h_calls, h_uaf, h_used>>

\* try_reclaim_memory, the loop over MEMORY_RECLAIMERS: a node no record was
\* seen to protect is deallocated, the others stay in the list
H_reclaim_Free(t) ==
    /\ h_pc[t] = "reclaim_free"
    /\ LET list == h_retired[t]
           gone == { list[i] : i \in 1..Len(list) } \ h_loc[t].seen
       IN  /\ h_node' = [n \in HNodes |->
                 IF n \in gone THEN [h_node[n] EXCEPT !.live = FALSE]
                 ELSE h_node[n]]
           /\ h_retired' = [h_retired EXCEPT ![t] =
                 SelectSeq(list, LAMBDA n : n \in h_loc[t].seen)]
    /\ h_pc' = [h_pc EXCEPT ![t] = "pop_reset"]
    /\ UNCHANGED <<HOthers, h_run, h_head, h_owner, h_ptr, h_sb, h_loc,
                   h_calls, h_uaf, h_used>>

\* ~Hazard_Ptr_Owner(): reset(): _ptr.store(nullptr)
H_pop_ResetPtr(t) ==
    /\ h_pc[t] = "pop_reset"
    /\ HStore(t, h_loc[t].rec, "ptr", Null)
    /\ h_pc' = [h_pc EXCEPT ![t] = "pop_reset_owner"]
    /\ UNCHANGED <<HOthers, h_run, h_head, h_node, h_retired, h_loc, h_calls,
                   h_uaf, h_used>>

\* reset(): _owner_thread.store(std::thread::id{}); and pop returns data
H_pop_ResetOwner(t) ==
    /\ h_pc[t] = "pop_reset_owner"
    /\ HStore(t, h_loc[t].rec, "owner", EmptyTid)
    /\ HReturn(t, h_loc[t].data)
    /\ UNCHANGED <<HOthers, h_run, h_head, h_node, h_retired, h_loc, h_uaf,
                   h_used>>

\* bool empty(): _head.load() == nullptr
H_empty == h_head = Null

HStep(t) ==
    \/ H_push_Alloc(t) \/ H_push_CAS(t)
    \/ H_acquire_Find(t) \/ H_acquire_CAS(t)
    \/ H_pop_Load(t) \/ H_pop_Protect(t) \/ H_pop_Validate(t)
    \/ H_pop_Next(t) \/ H_pop_CAS(t) \/ H_pop_Clear(t) \/ H_pop_Move(t)
    \/ H_pop_Retire(t) \/ H_reclaim_Scan(t) \/ H_reclaim_Free(t)
    \/ H_pop_ResetPtr(t) \/ H_pop_ResetOwner(t)

\* the stores to the hazard records pass through the store buffers
HNext == \E t \in HT : HStep(t) \/ H_Flush(t)

\* every store is visible at once (sequential consistency)
HNextSC == \E t \in HT : HStep(t)

\* ------------------------------------------- the end of a thread, of the stack
\* the nodes linked from node n, following at most k links
RECURSIVE HChainOf(_, _)
HChainOf(n, k) ==
    IF n = Null \/ k = 0 THEN {} ELSE {n} \cup HChainOf(h_node[n].next, k - 1)

\* a thread that has called into the stack ends: its thread_local
\* MEMORY_RECLAIMERS, a std::vector of structs of three pointers, is destroyed;
\* no deleter is called, the nodes it lists stay allocated
H_thread_Exit(t) ==
    /\ h_pc[t] = "idle"
    /\ t <= h_used
    /\ h_retired' = [h_retired EXCEPT ![t] = <<>>]
    /\ h_pc' = [h_pc EXCEPT ![t] = "exited"]
    /\ UNCHANGED <<HOthers, h_run, h_head, h_node, h_owner, h_ptr, h_sb, h_loc,
                   h_calls, h_uaf, h_used>>

\* ~Concurrent_Stack(), run by thread t once the other threads have ended:
\* the nodes linked from _head are deallocated, then the nodes in the
\* MEMORY_RECLAIMERS of the calling thread, and that list is cleared
H_destroy(t) ==
    /\ h_pc[t] = "idle"
    /\ t <= h_used + 1 /\ t <= h_run.threads
    /\ \A u \in HT \ {t} : h_pc[u] = "exited" \/ (h_pc[u] = "idle" /\ u > h_used)
    /\ LET list == h_retired[t]
           gone == HChainOf(h_head, HMaxNodes) \cup { list[i] : i \in 1..Len(list) }
       IN  h_node' = [n \in HNodes |->
                 IF n \in gone THEN [h_node[n] EXCEPT !.live = FALSE]
                 ELSE h_node[n]]
    /\ h_retired' = [h_retired EXCEPT ![t] = <<>>]
    /\ h_pc' = [h_pc EXCEPT ![t] = "destroyed"]
    /\ UNCHANGED <<HOthers, h_run, h_head, h_owner, h_ptr, h_sb, h_loc,
                   h_calls, h_uaf, h_used>>

\* push and pop with every store visible at once, the end of the threads and
\* the end of the stack
HNextExit == \E t \in HT : HStep(t) \/ H_thread_Exit(t) \/ H_destroy(t)

\* ------------------------------------------------ reading the history
HCalls == 1..Len(h_calls)
HPopsDone == { i \in HCalls : h_calls[i].kind = "pop" /\ h_calls[i].state = "done" }
HPushesDone == { i \in HCalls : h_calls[i].kind = "push" /\ h_calls[i].state = "done" }
HIdle == \A t \in HT : h_pc[t] = "idle"

\* the calls of thread t, in the order it issued them
HCallsOf(t) == SelectSeq([i \in HCalls |-> i], LAMBDA i : h_calls[i].thread = t)

\* thread t has run push, pop, push, pop, ... and has finished a pop last
HPushPopLoop(t) ==
    LET c == HCallsOf(t) IN
    /\ Len(c) % 2 = 0
    /\ \A i \in 1..Len(c) :
          h_calls[c[i]].kind = (IF i % 2 = 1 THEN "push" ELSE "pop")

\* ================================================================
\* Ring SPMC queue (Concurrent_Queue_LF_Ring_SPMC.hpp)
\* thread 0 is the producer, the threads of PC are the consumers
\* ================================================================
PC == 1..PConsumers
PT == 0..PConsumers

\* the value a push call supplies: each call pushes a value of its own
PValueOf(id) == id

\* Slot& slot = _slots[ticket & _MASK];
PSlot(ticket) == MaskIndex(ticket, p_CAPACITY)

PIssued == Len(p_calls)

\* the calls that have returned with success, by kind, at this instant
PPushesOkNow ==
    { i \in 1..Len(p_calls) :
        p_calls[i].kind \in {"push", "try_push"} /\ p_calls[i].state = "ok" }
PPopsOkNow ==
    { i \in 1..Len(p_calls) :
        p_calls[i].kind \in {"pop", "try_pop"} /\ p_calls[i].state = "ok" }

\* a call of this kind, issued now, is a try_pop on a queue that holds no
\* element while nothing runs but try_pop calls issued in the same way
PQuiet(kind) ==
    /\ kind = "try_pop"
    /\ Cardinality(PPushesOkNow) = Cardinality(PPopsOkNow)
    /\ \A u \in PT : p_pc[u] # "idle" => p_calls[p_op[u]].quiet

\* the history once a call of this kind is issued: a push, try_push or pop
\* ends the quiet of the calls that run
PDisturb(kind) ==
    IF kind = "try_pop" THEN p_calls
    ELSE [i \in 1..Len(p_calls) |->
            IF p_calls[i].state = "run"
            THEN [p_calls[i] EXCEPT !.quiet = FALSE] ELSE p_calls[i]]

\* what a move-out may read from slot i: the object a push constructed there,
\* or, when the storage holds no live object or the producer is writing it at
\* the same time (a data race), the stale bytes or anything else
PMoveOut(i) ==
    IF p_data[i].live /\ ~(p_pc[0] \in {"push2", "push3"} /\ PSlot(p_tail) = i)
    THEN {p_data[i].val}
    ELSE {p_data[i].val, Garbage}

PInitState ==
    /\ p_head = 0
    /\ p_tail = 0
    /\ p_expected = [i \in 0..(p_CAPACITY - 1) |-> i]
    /\ p_data = [i \in 0..(p_CAPACITY - 1) |-> [val |-> Garbage, live |-> FALSE]]
    /\ p_pc = [t \in PT |-> "idle"]
    /\ p_ticket = [t \in PT |-> NoTicket]
    /\ p_op = [t \in PT |-> NoOp]
    /\ p_calls = <<>>

\* the producer and the consumers issue PMaxOps calls between them
PInit ==
    /\ p_CAPACITY \in { pow2_size(k) : k \in 0..MaxCapPow2 }
    /\ p_run = [calls |-> PMaxOps]
    /\ PInitState

\* a call is issued: the thread leaves "idle"
PIssue(t, kind, label) ==
    /\ p_pc[t] = "idle"
    /\ PIssued < p_run.calls
    /\ p_pc' = [p_pc EXCEPT ![t] = label]
    /\ p_op' = [p_op EXCEPT ![t] = PIssued + 1]
    /\ p_calls' = Append(PDisturb(kind),
          [kind |-> kind, state |-> "run", val |-> Garbage,
           quiet |-> PQuiet(kind)])

\* the call of thread t returns
PReturn(t, state, val) ==
    /\ p_pc' = [p_pc EXCEPT ![t] = "idle"]
    /\ p_calls' = [p_calls EXCEPT ![p_op[t]].state = state, ![p_op[t]].val = val]

\* ------------------------------------------------- push and try_push
\* push is called: Slot& slot = _slots[_tail & _MASK];
P_push_Enter ==
    /\ PIssue(0, "push", "push1")
    /\ UNCHANGED <<POthers, p_CAPACITY, p_run, p_head, p_tail, p_expected,
                   p_data, p_ticket>>

\* push Step 1: while (slot._expected_ticket.load() != _tail);
P_push_Wait ==
    /\ p_pc[0] = "push1"
    /\ p_expected[PSlot(p_tail)] = p_tail
    /\ p_pc' = [p_pc EXCEPT ![0] = "push2"]
    /\ UNCHANGED <<POthers, p_CAPACITY, p_run, p_head, p_tail, p_expected,
                   p_data, p_ticket, p_op, p_calls>>

\* try_push is called: Slot& slot = _slots[_tail & _MASK];
P_try_push_Enter ==
    /\ PIssue(0, "try_push", "tpush1")
    /\ UNCHANGED <<POthers, p_CAPACITY, p_run, p_head, p_tail, p_expected,
                   p_data, p_ticket>>

\* try_push Step 1: if (slot._expected_ticket.load() != _tail) return false;
P_try_push_Check ==
    /\ p_pc[0] = "tpush1"
    /\ IF p_expected[PSlot(p_tail)] # p_tail
       THEN PReturn(0, "fail", Garbage)
       ELSE /\ p_pc' = [p_pc EXCEPT ![0] = "push2"]
            /\ UNCHANGED p_calls
    /\ UNCHANGED <<POthers, p_CAPACITY, p_run, p_head, p_tail, p_expected,
                   p_data, p_ticket, p_op>>

\* Step 2 of push and of try_push: ::new (slot.to_ptr()) T(data)
P_push_Construct ==
    /\ p_pc[0] = "push2"
    /\ p_data' = [p_data EXCEPT ![PSlot(p_tail)] =
                     [val |-> PValueOf(p_op[0]), live |-> TRUE]]
    /\ p_pc' = [p_pc EXCEPT ![0] = "push3"]
    /\ UNCHANGED <<POthers, p_CAPACITY, p_run, p_head, p_tail, p_expected,
                   p_ticket, p_op, p_calls>>

\* Step 3 of push and of try_push: slot._expected_ticket.store(_tail + 1)
P_push_Publish ==
    /\ p_pc[0] = "push3"
    /\ p_expected' = [p_expected EXCEPT ![PSlot(p_tail)] = p_tail + 1]
    /\ p_pc' = [p_pc EXCEPT ![0] = "push4"]
    /\ UNCHANGED <<POthers, p_CAPACITY, p_run, p_head, p_tail, p_data,
                   p_ticket, p_op, p_calls>>

\* Step 4 of push and of try_push: ++_tail; and the call returns
P_push_Advance ==
    /\ p_pc[0] = "push4"
    /\ p_tail' = p_tail + 1
    /\ PReturn(0, "ok", PValueOf(p_op[0]))
    /\ UNCHANGED <<POthers, p_CAPACITY, p_run, p_head, p_expected, p_data,
                   p_ticket, p_op>>

\* ---------------------------------------------------- pop and try_pop
\* pop Step 1: consumer_ticket = _head.fetch_add(1)
P_pop_Reserve(t) ==
    /\ t \in PC
    /\ PIssue(t, "pop", "pop2")
    /\ p_ticket' = [p_ticket EXCEPT ![t] = p_head]
    /\ p_head' = p_head + 1
    /\ UNCHANGED <<POthers, p_CAPACITY, p_run, p_tail, p_expected, p_data>>

\* pop Step 2: while (slot._expected_ticket.load() != consumer_ticket + 1);
P_pop_Wait(t) ==
    /\ p_pc[t] = "pop2"
    /\ p_expected[PSlot(p_ticket[t])] = p_ticket[t] + 1
    /\ p_pc' = [p_pc EXCEPT ![t] = "pop3"]
    /\ UNCHANGED <<POthers, p_CAPACITY, p_run, p_head, p_tail, p_expected,
                   p_data, p_ticket, p_op, p_calls>>

\* try_pop is called
P_try_pop_Enter(t) ==
    /\ t \in PC
    /\ PIssue(t, "try_pop", "tpop1")
    /\ UNCHANGED <<POthers, p_CAPACITY, p_run, p_head, p_tail, p_expected,
                   p_data, p_ticket>>

\* try_pop Step 1: consumer_ticket = _head.load()
P_try_pop_Load(t) ==
    /\ p_pc[t] = "tpop1"
    /\ p_ticket' = [p_ticket EXCEPT ![t] = p_head]
    /\ p_pc' = [p_pc EXCEPT ![t] = "tpop2"]
    /\ UNCHANGED <<POthers, p_CAPACITY, p_run, p_head, p_tail, p_expected,
                   p_data, p_op, p_calls>>

\* a try_pop that tests the slot against the mark of an empty slot
P_try_pop_Check_EmptyMark(t) ==
    /\ p_pc[t] = "tpop2"
    /\ IF p_expected[PSlot(p_ticket[t])] # p_ticket[t]
       THEN PReturn(t, "fail", Garbage)
       ELSE /\ p_pc' = [p_pc EXCEPT ![t] = "tpop3"]
            /\ UNCHANGED p_calls
    /\ UNCHANGED <<POthers, p_CAPACITY, p_run, p_head, p_tail, p_expected,
                   p_data, p_ticket, p_op>>

\* try_pop Step 2:
\* if (slot._expected_ticket.load() != consumer_ticket + 1) return std::nullopt;
P_try_pop_Check(t) ==
    /\ p_pc[t] = "tpop2"
    /\ IF p_expected[PSlot(p_ticket[t])] # p_ticket[t] + 1
       THEN PReturn(t, "fail", Garbage)
       ELSE /\ p_pc' = [p_pc EXCEPT ![t] = "tpop3"]
            /\ UNCHANGED p_calls
    /\ UNCHANGED <<POthers, p_CAPACITY, p_run, p_head, p_tail, p_expected,
                   p_data, p_ticket, p_op>>

\* try_pop Step 3: _head.compare_exchange_weak(consumer_ticket, consumer_ticket + 1);
\* a failure (the value differs, or a spurious failure of the weak form)
\* starts the loop over at Step 1
P_try_pop_CAS(t) ==
    /\ p_pc[t] = "tpop3"
    /\ \/ /\ p_head = p_ticket[t]
          /\ p_head' = p_head + 1
          /\ p_pc' = [p_pc EXCEPT ![t] = "pop3"]
       \/ /\ p_pc' = [p_pc EXCEPT ![t] = "tpop1"]
          /\ UNCHANGED p_head
    /\ UNCHANGED <<POthers, p_CAPACITY, p_run, p_tail, p_expected, p_data,
                   p_ticket, p_op, p_calls>>

\* pop Steps 3 and 4, try_pop Steps 4 and 5:
\* std::optional<T> data{ std::move(*ptr) }; ptr->~T();
P_pop_Move(t) ==
    /\ p_pc[t] = "pop3"
    /\ LET i == PSlot(p_ticket[t]) IN
         /\ \E v \in PMoveOut(i) :
               p_calls' = [p_calls EXCEPT ![p_op[t]].val = v]
         /\ p_data' = [p_data EXCEPT ![i].live = FALSE]
    /\ p_pc' = [p_pc EXCEPT ![t] = "pop5"]
    /\ UNCHANGED <<POthers, p_CAPACITY, p_run, p_head, p_tail, p_expected,
                   p_ticket, p_op>>

\* pop Steps 5 and 6, try_pop Steps 6 and 7:
\* slot._expected_ticket.store(consumer_ticket + _CAPACITY); return data;
P_pop_Republish(t) ==
    /\ p_pc[t] = "pop5"
    /\ p_expected' = [p_expected EXCEPT ![PSlot(p_ticket[t])] =
                         p_ticket[t] + p_CAPACITY]
    /\ PReturn(t, "ok", p_calls[p_op[t]].val)
    /\ UNCHANGED <<POthers, p_CAPACITY, p_run, p_head, p_tail, p_data,
                   p_ticket, p_op>>

PNext ==
    \/ P_push_Enter \/ P_push_Wait \/ P_try_push_Enter \/ P_try_push_Check
    \/ P_push_Construct \/ P_push_Publish \/ P_push_Advance
    \/ \E t \in PC :
          \/ P_pop_Reserve(t) \/ P_pop_Wait(t)
          \/ P_try_pop_Enter(t) \/ P_try_pop_Load(t) \/ P_try_pop_Check(t)
          \/ P_try_pop_CAS(t) \/ P_pop_Move(t) \/ P_pop_Republish(t)

\* ================================================================
\* Blocking queue (Concurrent_Queue_Blocking.hpp) as the job queue of the
\* thread pool of Thread_Pool__Blocking_Queue.hpp.
\* The sections a thread runs while it holds _m are one action each.
\* ================================================================
BT == 1..BThreads

\* the value the k-th push supplies
BValueOf(k) == k

BInit ==
    /\ b_run = [calls |-> BMaxOps]
    /\ b_queue = <<>>
    /\ b_pc = [t \in BT |-> "idle"]
    /\ b_waiting = {}
    /\ b_running = TRUE
    /\ b_calls = 0
    /\ b_pushes = 0
    /\ b_pops = 0
    /\ b_inorder = TRUE

\* a call is issued: the thread leaves "idle"
BIssue(t) ==
    /\ b_pc[t] = "idle"
    /\ b_calls < b_run.calls
    /\ b_calls' = b_calls + 1

\* push_helper: { std::unique_lock lk(_m); _queue.push(data); }
B_push_Locked(t) ==
    /\ BIssue(t)
    /\ b_queue' = Append(b_queue, BValueOf(b_pushes + 1))
    /\ b_pushes' = b_pushes + 1
    /\ b_pc' = [b_pc EXCEPT ![t] = "push_notify"]
    /\ UNCHANGED <<BOthers, b_run, b_waiting, b_running, b_pops, b_inorder>>

\* a push_helper that returns without the call of _cv.notify_one()
B_push_Notify_None(t) ==
    /\ b_pc[t] = "push_notify"
    /\ b_pc' = [b_pc EXCEPT ![t] = "idle"]
    /\ UNCHANGED <<BOthers, b_run, b_queue, b_waiting, b_running, b_calls,
                   b_pushes, b_pops, b_inorder>>

\* push_helper: _cv.notify_one(); one of the waiting threads, if any, is woken
B_push_Notify(t) ==
    /\ b_pc[t] = "push_notify"
    /\ IF b_waiting = {} THEN UNCHANGED b_waiting
       ELSE \E w \in b_waiting : b_waiting' = b_waiting \ {w}
    /\ b_pc' = [b_pc EXCEPT ![t] = "idle"]
    /\ UNCHANGED <<BOthers, b_run, b_queue, b_running, b_calls, b_pushes,
                   b_pops, b_inorder>>

\* pop with _m held: the predicate of _cv.wait is !_queue.empty(), nothing
\* else; while it is false the thread releases _m and waits.  Once it is
\* true the element at the front is moved out and returned (the test
\* if (_queue.empty()) return {}; that follows the wait then finds the queue
\* non-empty).
B_pop_Body(t) ==
    IF b_queue # <<>>
    THEN /\ b_queue' = Tail(b_queue)
         /\ b_pops' = b_pops + 1
         /\ b_inorder' = (b_inorder /\ Head(b_queue) = BValueOf(b_pops + 1))
         /\ b_pc' = [b_pc EXCEPT ![t] = "idle"]
         /\ UNCHANGED b_waiting
    ELSE /\ b_waiting' = b_waiting \cup {t}
         /\ b_pc' = [b_pc EXCEPT ![t] = "pop_wait"]
         /\ UNCHANGED <<b_queue, b_pops, b_inorder>>

\* pop: std::unique_lock lk(_m); _cv.wait(lk, ...): the first test
B_pop_Locked(t) ==
    /\ BIssue(t)
    /\ B_pop_Body(t)
    /\ UNCHANGED <<BOthers, b_run, b_running, b_pushes>>

\* pop: the waiting thread has been notified, takes _m again and tests again
B_pop_Woken(t) ==
    /\ b_pc[t] = "pop_wait"
    /\ t \notin b_waiting
    /\ B_pop_Body(t)
    /\ UNCHANGED <<BOthers, b_run, b_running, b_calls, b_pushes>>

\* pop: the wait ends without a notification (a spurious wake-up)
B_pop_Spurious(t) ==
    /\ b_pc[t] = "pop_wait"
    /\ t \in b_waiting
    /\ b_waiting' = b_waiting \ {t}
    /\ UNCHANGED <<BOthers, b_run, b_queue, b_pc, b_running, b_calls,
                   b_pushes, b_pops, b_inorder>>

\* Thread_Pool::shutdown: _running.compare_exchange_strong(true, false);
\* _jobs.stop();  The queue class defines no member stop and keeps no stop
\* flag: the call changes nothing in the queue and notifies no waiter.
B_shutdown(t) ==
    /\ BIssue(t)
    /\ b_running
    /\ b_running' = FALSE
    /\ UNCHANGED <<BOthers, b_run, b_queue, b_pc, b_waiting, b_pushes,
                   b_pops, b_inorder>>

BNext ==
    \E t \in BT :
        \/ B_push_Locked(t) \/ B_push_Notify(t)
        \/ B_pop_Locked(t) \/ B_pop_Woken(t) \/ B_pop_Spurious(t)
        \/ B_shutdown(t)

\* ================================================================
\* Linked MPSC stack (Concurrent_Stack_LF_Linked_MPSC.hpp)
\* thread 0 is the consumer, the threads of MP are the producers
\* ================================================================
MP == 1..MProducers
MT == 0..MProducers
MNodes == 1..MMaxNodes

\* the value a push call supplies: each call pushes a value of its own
MValueOf(id) == id

MIssued == Len(m_calls)

\* history: the number of pushes whose CAS has succeeded
MPushesDone == Cardinality({ i \in 1..Len(m_calls) : m_calls[i].rank > 0 })

MNoLocals == [op |-> NoOp, new |-> Null, old |-> Null, nxt |-> Null]

\* std::atomic<Node<T>*> _head{ nullptr };
MInit ==
    /\ m_head = Null
    /\ m_node = [n \in MNodes |-> [next |-> Null, data |-> None, live |-> FALSE]]
    /\ m_pc = [t \in MT |-> "idle"]
    /\ m_loc = [t \in MT |-> MNoLocals]
    /\ m_used = 0
    /\ m_calls = <<>>
    /\ m_order = <<>>

\* a call is issued: the thread leaves "idle". The producers are
\* interchangeable: they are numbered in the order of their first call.
MIssue(t, kind, label) ==
    /\ m_pc[t] = "idle"
    /\ MIssued < MMaxOps
    /\ t <= m_used + 1
    /\ m_used' = IF t > m_used THEN t ELSE m_used
    /\ m_pc' = [m_pc EXCEPT ![t] = label]
    /\ m_calls' = Append(m_calls,
          [kind |-> kind, thread |-> t, state |-> "run",
           val |-> IF kind = "push" THEN MValueOf(MIssued + 1) ELSE None,
           want |-> None, rank |-> 0, pushes |-> 0])

\* push: new_head = allocate(); new_head->_next = _head.load();
\* new_head->_data = data;
M_push_Alloc(t) ==
    /\ t \in MP
    /\ MIssue(t, "push", "push_cas")
    /\ \E n \in MNodes :
         /\ ~m_node[n].live
         /\ m_node' = [m_node EXCEPT ![n] =
               [next |-> m_head, data |-> MValueOf(MIssued + 1), live |-> TRUE]]
         /\ m_loc' = [m_loc EXCEPT ![t] =
               [MNoLocals EXCEPT !.op = MIssued + 1, !.new = n]]
    /\ UNCHANGED <<MOthers, m_head, m_order>>

\* the loop with a plain store in the place of the compare-exchange:
\* _head = new_head, whatever _head holds
M_push_CAS_Store(t) ==
    /\ m_pc[t] = "push_cas"
    /\ m_head' = m_loc[t].new
    /\ m_order' = Append(m_order, m_calls[m_loc[t].op].val)
    /\ m_pc' = [m_pc EXCEPT ![t] = "idle"]
    /\ m_calls' = [m_calls EXCEPT ![m_loc[t].op].state = "done",
                                   ![m_loc[t].op].rank = MPushesDone + 1]
    /\ UNCHANGED <<MOthers, m_node, m_loc, m_used>>

\* while (!_head.compare_exchange_weak(new_head->_next, new_head));
\* a failure stores the current _head into new_head->_next (a spurious
\* failure stores the value that is there already and changes nothing)
M_push_CAS(t) ==
    /\ m_pc[t] = "push_cas"
    /\ LET n == m_loc[t].new IN
         IF m_head = m_node[n].next
         THEN /\ m_head' = n
              /\ m_order' = Append(m_order, m_calls[m_loc[t].op].val)
              /\ m_pc' = [m_pc EXCEPT ![t] = "idle"]
              /\ m_calls' = [m_calls EXCEPT ![m_loc[t].op].state = "done",
                                             ![m_loc[t].op].rank = MPushesDone + 1]
              /\ UNCHANGED m_node
         ELSE /\ m_node' = [m_node EXCEPT ![n].next = m_head]
              /\ UNCHANGED <<m_head, m_order, m_pc, m_calls>>
    /\ UNCHANGED <<MOthers, m_loc, m_used>>

\* a pop that any thread may call, the producers included (more than one
\* consumer)
M_pop_Load_AnyThread(t) ==
    /\ MIssue(t, "pop", "pop_next")
    /\ m_loc' = [m_loc EXCEPT ![t] =
          [MNoLocals EXCEPT !.op = MIssued + 1, !.old = m_head]]
    /\ UNCHANGED <<MOthers, m_head, m_node, m_order>>

\* pop: Node<T>* old_head = _head.load();
M_pop_Load(t) ==
    /\ t = 0
    /\ MIssue(t, "pop", "pop_next")
    /\ m_loc' = [m_loc EXCEPT ![t] =
          [MNoLocals EXCEPT !.op = MIssued + 1, !.old = m_head]]
    /\ UNCHANGED <<MOthers, m_head, m_node, m_order>>

\* the test old_head && ... of the loop, then if (!old_head) return
\* std::nullopt; otherwise the argument old_head->_next of the CAS is read
\* (only the consumer deallocates nodes, so old_head is allocated)
M_pop_Next(t) ==
    /\ m_pc[t] = "pop_next"
    /\ IF m_loc[t].old = Null
       THEN /\ m_pc' = [m_pc EXCEPT ![t] = "idle"]
            /\ m_calls' = [m_calls EXCEPT ![m_loc[t].op].state = "done",
                                           ![m_loc[t].op].val = None]
            /\ UNCHANGED m_loc
       ELSE /\ m_loc' = [m_loc EXCEPT ![t].nxt = m_node[m_loc[t].old].next]
            /\ m_pc' = [m_pc EXCEPT ![t] = "pop_cas"]
            /\ UNCHANGED m_calls
    /\ UNCHANGED <<MOthers, m_head, m_node, m_used, m_order>>

\* _head.compare_exchange_weak(old_head, old_head->_next): a failure loads the
\* current _head into old_head and the loop goes on.  The history keeps, for
\* the pop, the value whose push was the last to succeed among those held.
M_pop_CAS(t) ==
    /\ m_pc[t] = "pop_cas"
    /\ IF m_head = m_loc[t].old
       THEN /\ m_head' = m_loc[t].nxt
            /\ m_pc' = [m_pc EXCEPT ![t] = "pop_move"]
            /\ m_calls' = [m_calls EXCEPT
                  ![m_loc[t].op].want =
                      IF m_order = <<>> THEN None ELSE m_order[Len(m_order)],
                  ![m_loc[t].op].pushes = MPushesDone]
            /\ m_order' = IF m_order = <<>> THEN <<>>
                          ELSE SubSeq(m_order, 1, Len(m_order) - 1)
            /\ UNCHANGED m_loc
       ELSE /\ m_loc' = [m_loc EXCEPT ![t].old = m_head]
            /\ m_pc' = [m_pc EXCEPT ![t] = "pop_next"]
            /\ UNCHANGED <<m_head, m_calls, m_order>>
    /\ UNCHANGED <<MOthers, m_node, m_used>>

\* std::optional<T> data{ std::move(old_head->_data) };
\* destroy(old_head); deallocate(old_head); return data;
M_pop_Move(t) ==
    /\ m_pc[t] = "pop_move"
    /\ LET n == m_loc[t].old IN
         /\ m_calls' = [m_calls EXCEPT ![m_loc[t].op].state = "done",
                                        ![m_loc[t].op].val = m_node[n].data]
         /\ m_node' = [m_node EXCEPT ![n] = [next |-> Null, data |-> None, live |-> FALSE]]
    /\ m_pc' = [m_pc EXCEPT ![t] = "idle"]
    /\ UNCHANGED <<MOthers, m_head, m_loc, m_used, m_order>>

MNext ==
    \E t \in MT :
        \/ M_push_Alloc(t) \/ M_push_CAS(t)
        \/ M_pop_Load(t) \/ M_pop_Next(t) \/ M_pop_CAS(t) \/ M_pop_Move(t)

\* ================================================================
\* Ticket ring MPMC queue (Concurrent_Queue_LF_Ring_Ticket_MPMC.hpp)
\* ================================================================
TT == 1..TThreads

TSlot(ticket) == MaskIndex(ticket, t_CAPACITY)

\* Concurrent_Queue(): each slot expects its index as the first producer ticket
TInit ==
    /\ t_CAPACITY \in { pow2_size(k) : k \in 0..TMaxCapPow2 }
    /\ t_head = 0
    /\ t_tail = 0
    /\ t_expected = [i \in 0..(t_CAPACITY - 1) |-> i]
    /\ t_live = [i \in 0..(t_CAPACITY - 1) |-> FALSE]
    /\ t_pc = [t \in TT |-> "idle"]
    /\ t_ticket = [t \in TT |-> NoTicket]
    /\ t_issued = 0
    /\ t_stored = 0

\* push: Step 1 fetch_add on _tail, Step 2 wait for the mark producer_ticket,
\* Step 3 construct, Step 4 store producer_ticket + 1
T_push(t) ==
    \/ /\ t_pc[t] = "idle"
       /\ t_issued < TMaxOps
       /\ t_issued' = t_issued + 1
       /\ t_ticket' = [t_ticket EXCEPT ![t] = t_tail]
       /\ t_tail' = t_tail + 1
       /\ t_pc' = [t_pc EXCEPT ![t] = "push2"]
       /\ UNCHANGED <<TOthers, t_CAPACITY, t_head, t_expected, t_live, t_stored>>
    \/ /\ t_pc[t] = "push2"
       /\ t_expected[TSlot(t_ticket[t])] = t_ticket[t]
       /\ t_pc' = [t_pc EXCEPT ![t] = "push3"]
       /\ UNCHANGED <<TOthers, t_CAPACITY, t_head, t_tail, t_expected, t_live,
                      t_ticket, t_issued, t_stored>>
    \/ /\ t_pc[t] = "push3"
       /\ t_live' = [t_live EXCEPT ![TSlot(t_ticket[t])] = TRUE]
       /\ t_stored' = t_stored + 1
       /\ t_pc' = [t_pc EXCEPT ![t] = "push4"]
       /\ UNCHANGED <<TOthers, t_CAPACITY, t_head, t_tail, t_expected,
                      t_ticket, t_issued>>
    \/ /\ t_pc[t] = "push4"
       /\ t_expected' = [t_expected EXCEPT ![TSlot(t_ticket[t])] = t_ticket[t] + 1]
       /\ t_pc' = [t_pc EXCEPT ![t] = "idle"]
       /\ UNCHANGED <<TOthers, t_CAPACITY, t_head, t_tail, t_live,
                      t_ticket, t_issued, t_stored>>

\* pop: Step 1 fetch_add on _head, Step 2 wait for the mark consumer_ticket + 1,
\* Steps 3 and 4 move out and destroy, Step 5 store consumer_ticket + _CAPACITY,
\* Step 6 return
T_pop(t) ==
    \/ /\ t_pc[t] = "idle"
       /\ t_issued < TMaxOps
       /\ t_issued' = t_issued + 1
       /\ t_ticket' = [t_ticket EXCEPT ![t] = t_head]
       /\ t_head' = t_head + 1
       /\ t_pc' = [t_pc EXCEPT ![t] = "pop2"]
       /\ UNCHANGED <<TOthers, t_CAPACITY, t_tail, t_expected, t_live, t_stored>>
    \/ /\ t_pc[t] = "pop2"
       /\ t_expected[TSlot(t_ticket[t])] = t_ticket[t] + 1
       /\ t_pc' = [t_pc EXCEPT ![t] = "pop3"]
       /\ UNCHANGED <<TOthers, t_CAPACITY, t_head, t_tail, t_expected, t_live,
                      t_ticket, t_issued, t_stored>>
    \/ /\ t_pc[t] = "pop3"
       /\ t_live' = [t_live EXCEPT ![TSlot(t_ticket[t])] = FALSE]
       /\ t_stored' = t_stored - 1
       /\ t_pc' = [t_pc EXCEPT ![t] = "pop5"]
       /\ UNCHANGED <<TOthers, t_CAPACITY, t_head, t_tail, t_expected,
                      t_ticket, t_issued>>
    \/ /\ t_pc[t] = "pop5"
       /\ t_expected' = [t_expected EXCEPT ![TSlot(t_ticket[t])] =
                            t_ticket[t] + t_CAPACITY]
       /\ t_pc' = [t_pc EXCEPT ![t] = "idle"]
       /\ UNCHANGED <<TOthers, t_CAPACITY, t_head, t_tail, t_live,
                      t_ticket, t_issued, t_stored>>

\* empty(): _head.load() == _tail.load()
T_empty == t_head = t_tail

TNext == \E t \in TT : T_push(t) \/ T_pop(t)

\* ================================================================
\* Stamped ring MPMC queue (Concurrent_Queue_LF_Ring_Stamped_MPMC.hpp)
\* beside the ticket ring MPMC queue
\* (Concurrent_Queue_LF_Ring_Ticket_MPMC.hpp): every call is issued to both
\* queues, and a thread that takes a step takes it in both
\* ================================================================
ZT == 1..ZThreads

\* the value a try_push call supplies: each call pushes a value of its own
ZValueOf(id) == id

\* Slot& slot = _slots[ticket & _MASK];
ZSlot(ticket) == MaskIndex(ticket, z_CAPACITY)

\* both constructors: _version.store(i * 2) / _expected_ticket.store(i)
ZInit ==
    /\ z_CAPACITY \in { pow2_size(k) : k \in 0..ZMaxCapPow2 }
    /\ z_head = 0
    /\ z_tail = 0
    /\ z_version = [i \in 0..(z_CAPACITY - 1) |-> i * 2]
    /\ z_data = [i \in 0..(z_CAPACITY - 1) |-> [val |-> Garbage, live |-> FALSE]]
    /\ z_pc = [t \in ZT |-> "idle"]
    /\ z_ticket = [t \in ZT |-> NoTicket]
    /\ z_calls = <<>>
    /\ z_op = [t \in ZT |-> NoOp]
    /\ y_head = 0
    /\ y_tail = 0
    /\ y_expected = [i \in 0..(z_CAPACITY - 1) |-> i]
    /\ y_data = [i \in 0..(z_CAPACITY - 1) |-> [val |-> Garbage, live |-> FALSE]]
    /\ y_pc = [t \in ZT |-> "idle"]
    /\ y_ticket = [t \in ZT |-> NoTicket]
    /\ y_calls = <<>>

\* thread t may issue a call: it runs no call in either queue
ZMayIssue(t) ==
    /\ z_pc[t] = "idle"
    /\ y_pc[t] = "idle"
    /\ Len(z_calls) < ZMaxOps

\* the record of a call issued now by thread t; the call is alone as long as
\* no other call runs between its issue and its return
ZNewCall(t, kind) ==
    [kind |-> kind, thread |-> t, state |-> "run", val |-> Garbage,
     alone |-> \A u \in ZT : z_pc[u] = "idle" /\ y_pc[u] = "idle"]

\* the history once a further call is issued: the calls that run are no
\* longer alone
ZDisturb ==
    [i \in 1..Len(z_calls) |->
        IF z_calls[i].state = "run" \/ y_calls[i].state = "run"
        THEN [z_calls[i] EXCEPT !.alone = FALSE] ELSE z_calls[i]]

\* what a move-out may read from a slot: the object constructed there, or,
\* when the storage holds no live object or another thread constructs into
\* it at the same time (a data race), anything
ZMoveOut(slot, racing) ==
    IF slot.live /\ ~racing THEN {slot.val} ELSE {slot.val, Garbage}

\* stamped try_push: producer_ticket = _tail.load(); in the loop the check of
\* _version against producer_ticket * 2 (return false), the
\* compare_exchange_weak on _tail (a failure, spurious or not, reloads the
\* ticket and repeats the check), construct_at, and the store of
\* expected_version + 1 (return true)
Z_try_push(t) ==
    \/ /\ ZMayIssue(t)
       /\ z_calls' = Append(ZDisturb, ZNewCall(t, "try_push"))
       /\ z_op' = [z_op EXCEPT ![t] = Len(z_calls) + 1]
       /\ z_ticket' = [z_ticket EXCEPT ![t] = z_tail]
       /\ z_pc' = [z_pc EXCEPT ![t] = "push_check"]
       /\ UNCHANGED <<z_CAPACITY, z_head, z_tail, z_version, z_data>>
    \/ /\ z_pc[t] = "push_check"
       /\ IF z_version[ZSlot(z_ticket[t])] # z_ticket[t] * 2
          THEN /\ z_pc' = [z_pc EXCEPT ![t] = "idle"]
               /\ z_calls' = [z_calls EXCEPT ![z_op[t]].state = "fail"]
          ELSE /\ z_pc' = [z_pc EXCEPT ![t] = "push_cas"]
               /\ UNCHANGED z_calls
       /\ UNCHANGED <<z_CAPACITY, z_head, z_tail, z_version, z_data, z_ticket, z_op>>
    \/ /\ z_pc[t] = "push_cas"
       /\ \/ /\ z_tail = z_ticket[t]
             /\ z_tail' = z_tail + 1
             /\ z_pc' = [z_pc EXCEPT ![t] = "push_construct"]
             /\ UNCHANGED z_ticket
          \/ /\ z_ticket' = [z_ticket EXCEPT ![t] = z_tail]
             /\ z_pc' = [z_pc EXCEPT ![t] = "push_check"]
             /\ UNCHANGED z_tail
       /\ UNCHANGED <<z_CAPACITY, z_head, z_version, z_data, z_calls, z_op>>
    \/ /\ z_pc[t] = "push_construct"
       /\ z_data' = [z_data EXCEPT ![ZSlot(z_ticket[t])] =
                        [val |-> ZValueOf(z_op[t]), live |-> TRUE]]
       /\ z_pc' = [z_pc EXCEPT ![t] = "push_store"]
       /\ UNCHANGED <<z_CAPACITY, z_head, z_tail, z_version, z_ticket, z_calls, z_op>>
    \/ /\ z_pc[t] = "push_store"
       /\ z_version' = [z_version EXCEPT ![ZSlot(z_ticket[t])] = z_ticket[t] * 2 + 1]
       /\ z_pc' = [z_pc EXCEPT ![t] = "idle"]
       /\ z_calls' = [z_calls EXCEPT ![z_op[t]].state = "ok",
                                     ![z_op[t]].val = ZValueOf(z_op[t])]
       /\ UNCHANGED <<z_CAPACITY, z_head, z_tail, z_data, z_ticket, z_op>>

\* stamped try_pop: consumer_ticket = _head.load(); in the loop the check of
\* _version against consumer_ticket * 2 + 1 (return std::nullopt), the
\* compare_exchange_weak on _head, the move-out and destroy_at, and the store
\* of (consumer_ticket + _CAPACITY) * 2 (return data)
Z_try_pop(t) ==
    \/ /\ ZMayIssue(t)
       /\ z_calls' = Append(ZDisturb, ZNewCall(t, "try_pop"))
       /\ z_op' = [z_op EXCEPT ![t] = Len(z_calls) + 1]
       /\ z_ticket' = [z_ticket EXCEPT ![t] = z_head]
       /\ z_pc' = [z_pc EXCEPT ![t] = "pop_check"]
       /\ UNCHANGED <<z_CAPACITY, z_head, z_tail, z_version, z_data>>
    \/ /\ z_pc[t] = "pop_check"
       /\ IF z_version[ZSlot(z_ticket[t])] # z_ticket[t] * 2 + 1
          THEN /\ z_pc' = [z_pc EXCEPT ![t] = "idle"]
               /\ z_calls' = [z_calls EXCEPT ![z_op[t]].state = "fail"]
          ELSE /\ z_pc' = [z_pc EXCEPT ![t] = "pop_cas"]
               /\ UNCHANGED z_calls
       /\ UNCHANGED <<z_CAPACITY, z_head, z_tail, z_version, z_data, z_ticket, z_op>>
    \/ /\ z_pc[t] = "pop_cas"
       /\ \/ /\ z_head = z_ticket[t]
             /\ z_head' = z_head + 1
             /\ z_pc' = [z_pc EXCEPT ![t] = "pop_move"]
             /\ UNCHANGED z_ticket
          \/ /\ z_ticket' = [z_ticket EXCEPT ![t] = z_head]
             /\ z_pc' = [z_pc EXCEPT ![t] = "pop_check"]
             /\ UNCHANGED z_head
       /\ UNCHANGED <<z_CAPACITY, z_tail, z_version, z_data, z_calls, z_op>>
    \/ /\ z_pc[t] = "pop_move"
       /\ LET i == ZSlot(z_ticket[t]) IN
            /\ \E v \in ZMoveOut(z_data[i],
                         \E u \in ZT : z_pc[u] \in {"push_construct", "push_store"}
                                       /\ ZSlot(z_ticket[u]) = i) :
                  z_calls' = [z_calls EXCEPT ![z_op[t]].val = v]
            /\ z_data' = [z_data EXCEPT ![i].live = FALSE]
       /\ z_pc' = [z_pc EXCEPT ![t] = "pop_store"]
       /\ UNCHANGED <<z_CAPACITY, z_head, z_tail, z_version, z_ticket, z_op>>
    \/ /\ z_pc[t] = "pop_store"
       /\ z_version' = [z_version EXCEPT ![ZSlot(z_ticket[t])] =
                           (z_ticket[t] + z_CAPACITY) * 2]
       /\ z_pc' = [z_pc EXCEPT ![t] = "idle"]
       /\ z_calls' = [z_calls EXCEPT ![z_op[t]].state = "ok"]
       /\ UNCHANGED <<z_CAPACITY, z_head, z_tail, z_data, z_ticket, z_op>>

\* ticket try_push: producer_ticket = _tail.load(); in the loop the check of
\* _expected_ticket against producer_ticket (return false), the
\* compare_exchange_strong on _tail (a failure reloads the ticket and
\* repeats the check), the construction, and the store of
\* producer_ticket + 1 (return true)
Y_try_push(t) ==
    \/ /\ ZMayIssue(t)
       /\ y_calls' = Append(y_calls, [state |-> "run", val |-> Garbage])
       /\ y_ticket' = [y_ticket EXCEPT ![t] = y_tail]
       /\ y_pc' = [y_pc EXCEPT ![t] = "push_check"]
       /\ UNCHANGED <<y_head, y_tail, y_expected, y_data>>
    \/ /\ y_pc[t] = "push_check"
       /\ IF y_expected[ZSlot(y_ticket[t])] # y_ticket[t]
          THEN /\ y_pc' = [y_pc EXCEPT ![t] = "idle"]
               /\ y_calls' = [y_calls EXCEPT ![z_op[t]].state = "fail"]
          ELSE /\ y_pc' = [y_pc EXCEPT ![t] = "push_cas"]
               /\ UNCHANGED y_calls
       /\ UNCHANGED <<y_head, y_tail, y_expected, y_data, y_ticket>>
    \/ /\ y_pc[t] = "push_cas"
       /\ IF y_tail = y_ticket[t]
          THEN /\ y_tail' = y_tail + 1
               /\ y_pc' = [y_pc EXCEPT ![t] = "push_construct"]
               /\ UNCHANGED y_ticket
          ELSE /\ y_ticket' = [y_ticket EXCEPT ![t] = y_tail]
               /\ y_pc' = [y_pc EXCEPT ![t] = "push_check"]
               /\ UNCHANGED y_tail
       /\ UNCHANGED <<y_head, y_expected, y_data, y_calls>>
    \/ /\ y_pc[t] = "push_construct"
       /\ y_data' = [y_data EXCEPT ![ZSlot(y_ticket[t])] =
                        [val |-> ZValueOf(z_op[t]), live |-> TRUE]]
       /\ y_pc' = [y_pc EXCEPT ![t] = "push_store"]
       /\ UNCHANGED <<y_head, y_tail, y_expected, y_ticket, y_calls>>
    \/ /\ y_pc[t] = "push_store"
       /\ y_expected' = [y_expected EXCEPT ![ZSlot(y_ticket[t])] = y_ticket[t] + 1]
       /\ y_pc' = [y_pc EXCEPT ![t] = "idle"]
       /\ y_calls' = [y_calls EXCEPT ![z_op[t]].state = "ok",
                                     ![z_op[t]].val = ZValueOf(z_op[t])]
       /\ UNCHANGED <<y_head, y_tail, y_data, y_ticket>>

\* ticket try_pop: consumer_ticket = _head.load(); in the loop the test of
\* consumer_ticket against _tail (return std::nullopt), the check of
\* _expected_ticket against consumer_ticket + 1 (return std::nullopt), the
\* compare_exchange_strong on _head, the move-out and the destructor, and
\* the store of consumer_ticket + _CAPACITY (return data)
Y_try_pop(t) ==
    \/ /\ ZMayIssue(t)
       /\ y_calls' = Append(y_calls, [state |-> "run", val |-> Garbage])
       /\ y_ticket' = [y_ticket EXCEPT ![t] = y_head]
       /\ y_pc' = [y_pc EXCEPT ![t] = "pop_tail"]
       /\ UNCHANGED <<y_head, y_tail, y_expected, y_data>>
    \/ /\ y_pc[t] = "pop_tail"
       /\ IF y_ticket[t] = y_tail
          THEN /\ y_pc' = [y_pc EXCEPT ![t] = "idle"]
               /\ y_calls' = [y_calls EXCEPT ![z_op[t]].state = "fail"]
          ELSE /\ y_pc' = [y_pc EXCEPT ![t] = "pop_check"]
               /\ UNCHANGED y_calls
       /\ UNCHANGED <<y_head, y_tail, y_expected, y_data, y_ticket>>
    \/ /\ y_pc[t] = "pop_check"
       /\ IF y_expected[ZSlot(y_ticket[t])] # y_ticket[t] + 1
          THEN /\ y_pc' = [y_pc EXCEPT ![t] = "idle"]
               /\ y_calls' = [y_calls EXCEPT ![z_op[t]].state = "fail"]
          ELSE /\ y_pc' = [y_pc EXCEPT ![t] = "pop_cas"]
               /\ UNCHANGED y_calls
       /\ UNCHANGED <<y_head, y_tail, y_expected, y_data, y_ticket>>
    \/ /\ y_pc[t] = "pop_cas"
       /\ IF y_head = y_ticket[t]
          THEN /\ y_head' = y_head + 1
               /\ y_pc' = [y_pc EXCEPT ![t] = "pop_move"]
               /\ UNCHANGED y_ticket
          ELSE /\ y_ticket' = [y_ticket EXCEPT ![t] = y_head]
               /\ y_pc' = [y_pc EXCEPT ![t] = "pop_tail"]
               /\ UNCHANGED y_head
       /\ UNCHANGED <<y_tail, y_expected, y_data, y_calls>>
    \/ /\ y_pc[t] = "pop_move"
       /\ LET i == ZSlot(y_ticket[t]) IN
            /\ \E v \in ZMoveOut(y_data[i],
                         \E u \in ZT : y_pc[u] \in {"push_construct", "push_store"}
                                       /\ ZSlot(y_ticket[u]) = i) :
                  y_calls' = [y_calls EXCEPT ![z_op[t]].val = v]
            /\ y_data' = [y_data EXCEPT ![i].live = FALSE]
       /\ y_pc' = [y_pc EXCEPT ![t] = "pop_store"]
       /\ UNCHANGED <<y_head, y_tail, y_expected, y_ticket>>
    \/ /\ y_pc[t] = "pop_store"
       /\ y_expected' = [y_expected EXCEPT ![ZSlot(y_ticket[t])] =
                            y_ticket[t] + z_CAPACITY]
       /\ y_pc' = [y_pc EXCEPT ![t] = "idle"]
       /\ y_calls' = [y_calls EXCEPT ![z_op[t]].state = "ok"]
       /\ UNCHANGED <<y_head, y_tail, y_data, y_ticket>>

\* thread t issues a try_push to both queues, or takes the next step of its
\* try_push in both
ZBoth_try_push(t) ==
    /\ z_pc[t] = "idle" <=> y_pc[t] = "idle"
    /\ Z_try_push(t)
    /\ Y_try_push(t)
    /\ UNCHANGED ZOthers

\* the same for try_pop
ZBoth_try_pop(t) ==
    /\ z_pc[t] = "idle" <=> y_pc[t] = "idle"
    /\ Z_try_pop(t)
    /\ Y_try_pop(t)
    /\ UNCHANGED ZOthers

\* the call of thread t has returned from the ticket queue: the thread takes
\* the next step of its call in the stamped queue
ZStampedStep(t) ==
    /\ z_pc[t] # "idle"
    /\ y_pc[t] = "idle"
    /\ Z_try_push(t) \/ Z_try_pop(t)
    /\ UNCHANGED <<ZOthers, yvars>>

\* the call of thread t has returned from the stamped queue: the thread
\* takes the next step of its call in the ticket queue
ZTicketStep(t) ==
    /\ y_pc[t] # "idle"
    /\ z_pc[t] = "idle"
    /\ Y_try_push(t) \/ Y_try_pop(t)
    /\ UNCHANGED <<ZOthers, zvars>>

ZNext ==
    \E t \in ZT :
        \/ ZBoth_try_push(t) \/ ZBoth_try_pop(t)
        \/ ZStampedStep(t) \/ ZTicketStep(t)

vars == <<qvars, svars, kvars, hvars, pvars, bvars, mvars, tvars,
         zvars, yvars>>

\* a container no thread calls into, built with the smallest capacity
QUnused == QInit /\ q_CAPACITY = pow2_size(0)
SUnused == SInit /\ s_CAPACITY = pow2_size(0)
KUnused == KInit /\ k_CAPACITY = pow2_size(0) /\ k_run.threads = 1
HUnused == HInit /\ h_run = [buffered |-> FALSE, threads |-> HThreads]
TUnused == TInit /\ t_CAPACITY = pow2_size(0)
ZUnused == ZInit /\ z_CAPACITY = pow2_size(0)
BUnused == BInit /\ MInit /\ TUnused /\ ZUnused
PUnused == PInit /\ p_CAPACITY = pow2_size(0) /\ BUnused

\* a container that takes no call at all
QNone == QInitState /\ q_CAPACITY = pow2_size(0) /\ q_run = [threads |-> 1, calls |-> 0]
PNone == p_CAPACITY = pow2_size(0) /\ p_run = [calls |-> 0] /\ PInitState

\* the ticket ring queue under push and pop
InitTicket ==
    /\ QUnused /\ SUnused /\ KUnused /\ HUnused
    /\ PInit /\ p_CAPACITY = pow2_size(0) /\ BInit /\ MInit /\ TInit /\ ZUnused
SpecTicket == InitTicket /\ [][TNext]_vars

\* the stamped ring queue and the ticket ring queue under the same calls of
\* try_push and try_pop
InitStamped ==
    /\ QUnused /\ SUnused /\ KUnused /\ HUnused
    /\ PInit /\ p_CAPACITY = pow2_size(0) /\ BInit /\ MInit /\ TUnused /\ ZInit
SpecStamped == InitStamped /\ [][ZNext]_vars

\* the ring MPMC queue under push, pop, try_push and try_pop
Init == QInit /\ SUnused /\ KUnused /\ HUnused /\ PUnused
Next == QNext
Spec == Init /\ [][Next]_vars

\* the ring MPMC queue under blocking push and pop
InitQueueBlocking == QInitBlocking /\ SUnused /\ KUnused /\ HUnused /\ PUnused
SpecQueueBlocking == InitQueueBlocking /\ [][QNextBlocking]_vars

\* the same under fair scheduling: a thread inside a call whose next
\* statement can be executed does execute it in the end
QStepInside(t) ==
    \/ Q_push_Step2(t) \/ Q_push_Step3(t) \/ Q_push_Step4(t) \/ Q_push_Size(t)
    \/ Q_pop_Step2(t) \/ Q_pop_Step3(t) \/ Q_pop_Step5(t) \/ Q_pop_Size(t)
SpecQueueBlockingFair ==
    /\ InitQueueBlocking /\ [][QNextBlocking]_vars
    /\ \A t \in QT : WF_vars(QStepInside(t))

\* the ring MPMC queue driven by one thread
InitQueueSeq == QInitSeq /\ SUnused /\ KUnused /\ HUnused /\ PUnused
SpecQueueSeq == InitQueueSeq /\ [][Next]_vars

\* the ring SPSC queue: one producer, one consumer
InitSPSC == QUnused /\ SInit /\ KUnused /\ HUnused /\ PUnused
SpecSPSC == InitSPSC /\ [][SNext]_vars

\* the ring ticket stack under push, pop, try_push and try_pop
InitStack == QUnused /\ SUnused /\ KInit /\ HUnused /\ PUnused
SpecStack == InitStack /\ [][KNext]_vars

\* the ring ticket stack under the blocking push and pop of several threads
InitStackBlocking ==
    /\ QUnused /\ SUnused /\ HUnused /\ PUnused /\ KInitState
    /\ k_run = [threads |-> KBlockingThreads, calls |-> KMaxOps]
SpecStackBlocking == InitStackBlocking /\ [][KNextBlocking]_vars

\* the hazard-protected linked stack under push and pop, the stores to the
\* hazard records ordered as memory_order_release orders them
InitHazard ==
    QUnused /\ SUnused /\ KUnused /\ PUnused /\ HInit /\ h_run = [buffered |-> TRUE, threads |-> HThreads]
SpecHazard == InitHazard /\ [][HNext]_vars

\* the same stack with every store visible at once
InitHazardSC == QUnused /\ SUnused /\ KUnused /\ HUnused /\ PUnused
SpecHazardSC == InitHazardSC /\ [][HNextSC]_vars

\* the hazard-protected linked stack with as many threads as hazard records
InitHazardAcquire ==
    /\ QUnused /\ SUnused /\ KUnused /\ PUnused /\ HInit
    /\ h_run = [buffered |-> FALSE, threads |-> HAcquirers]
SpecHazardAcquire == InitHazardAcquire /\ [][HNextSC]_vars

\* the hazard-protected linked stack until its threads end and it is destroyed
SpecHazardExit == InitHazardSC /\ [][HNextExit]_vars

\* the same calls and ends with the stores to the hazard records passing
\* through the store buffers
HNextExitBuffered ==
    \E t \in HT : HStep(t) \/ H_Flush(t) \/ H_thread_Exit(t) \/ H_destroy(t)
SpecHazardExitBuffered == InitHazard /\ [][HNextExitBuffered]_vars

\* the linked MPSC stack under push and pop
InitLinked == QUnused /\ SUnused /\ KUnused /\ HUnused /\ PUnused
SpecLinked == InitLinked /\ [][MNext]_vars

\* the blocking queue under push, pop and the shutdown of its thread pool
InitBlocking == QUnused /\ SUnused /\ KUnused /\ HUnused /\ PUnused
SpecBlocking == InitBlocking /\ [][BNext]_vars

\* the same, with every thread that is inside push_helper or that has been
\* woken inside pop taking its next step at some time (the scheduler runs
\* every runnable thread; _m is held for one section at a time).  Nothing
\* obliges a thread to issue a call, and no wait has to end spuriously.
SpecBlockingFair ==
    /\ SpecBlocking
    /\ \A t \in BT : WF_vars(B_push_Notify(t)) /\ WF_vars(B_pop_Woken(t))

\* the ring MPMC queue, or the ring SPMC queue, under all of its calls
InitTryPop ==
    \/ QInit /\ SUnused /\ KUnused /\ HUnused /\ PNone /\ BUnused
    \/ QNone /\ SUnused /\ KUnused /\ HUnused /\ PInit /\ BUnused
SpecTryPop == InitTryPop /\ [][QNext \/ PNext]_vars

\* ================================================================
\* Claims
\* ================================================================

\* C1: ring MPMC queue, any capacity 2^k, any interleaving of push, try_push,
\* pop and try_pop: every value a successful pop returns was supplied by a
\* push, no pushed value is returned by two pops, and once as many pops as
\* pushes have succeeded (and no call runs) the popped values are the pushed
\* values.
C1_PopsMatchPushes ==
    /\ \A p \in QPopsOk :
          \E i \in QPushesReserved : q_calls[p].val = QValueOf(i)
    /\ \A p1, p2 \in QPopsOk :
          p1 # p2 => q_calls[p1].val # q_calls[p2].val
    /\ (QIdle /\ Cardinality(QPopsOk) = Cardinality(QPushesOk))
          => { q_calls[p].val : p \in QPopsOk } = { QValueOf(i) : i \in QPushesOk }

\* the same statement for the capacities above 1
C1_PopsMatchPushes_Cap2Up == q_CAPACITY > 1 => C1_PopsMatchPushes

\* C2: ring MPMC queue: if push P1 has returned before push P2 reserves its
\* ticket on _tail and both elements are popped, the pop that returns P1's
\* element holds a smaller consumer ticket than the pop that returns P2's.
C2_FifoByTicket ==
    \A p1, p2 \in QPopsOk :
        LET v1 == q_calls[p1].val
            v2 == q_calls[p2].val
        IN  ( /\ v1 \in QPushesReserved
              /\ v2 \in QPushesReserved
              /\ v1 \in q_calls[v2].pre )
            => q_calls[p1].ticket < q_calls[p2].ticket

\* the same order for the capacities above 1
C2_FifoByTicket_Cap2Up == q_CAPACITY > 1 => C2_FifoByTicket

\* two pushes, one returned before the other reserved, both popped
C2_BothPopped ==
    \E p1, p2 \in QPopsOk :
        /\ q_calls[p1].val \in QPushesReserved
        /\ q_calls[p2].val \in QPushesReserved
        /\ q_calls[p1].val \in q_calls[q_calls[p2].val].pre
        /\ q_CAPACITY > 1

\* C8: ring MPMC queue driven by one thread: try_push succeeds while fewer
\* than capacity elements are held and returns false when capacity elements
\* are held; try_pop returns the held elements in push order and then None.
C8_SequentialTryOps ==
    q_seq =>
      \A i \in 1..Len(q_calls) :
        LET c == q_calls[i]
            h == QHeld(i - 1)
        IN  /\ (c.kind = "try_push" /\ c.state # "run")
                  => ((c.state = "ok") <=> (Len(h) < q_CAPACITY))
            /\ (c.kind = "try_pop" /\ c.state # "run")
                  => IF h = <<>> THEN c.state = "fail"
                     ELSE c.state = "ok" /\ c.val = Head(h)

\* the same statement for the capacities above 1
C8_SequentialTryOps_Cap2Up == q_CAPACITY > 1 => C8_SequentialTryOps

\* the scenario of capacity 2: try_push(1), try_push(2), try_push(3), then
\* three try_pop
C8_ScenarioCap2 ==
    ( /\ q_CAPACITY = 2
      /\ Len(q_calls) = 6
      /\ \A i \in 1..3 : q_calls[i].kind = "try_push"
      /\ \A i \in 4..6 : q_calls[i].kind = "try_pop"
      /\ QIdle )
    => /\ q_calls[1].state = "ok" /\ q_calls[2].state = "ok"
       /\ q_calls[3].state = "fail"
       /\ q_calls[4].state = "ok" /\ q_calls[4].val = QValueOf(1)
       /\ q_calls[5].state = "ok" /\ q_calls[5].val = QValueOf(2)
       /\ q_calls[6].state = "fail"

\* C3: ring containers, every capacity 2^k with k >= 0: at every instant the
\* number of elements constructed in slots and not yet moved out is at most
\* the capacity; no push constructs into a slot that still holds an element.
C3_AtMostCapacityLive == q_live <= q_CAPACITY

\* the same bound for the capacities above 1
C3_AtMostCapacityLive_Cap2Up == q_CAPACITY > 1 => C3_AtMostCapacityLive
\* C9: ring SPSC queue of capacity 1, one producer pushing 0..9 and one
\* consumer popping ten times: the pops return 0, 1, ..., 9 in that order, no
\* push constructs before the element pushed before it has been drained, and
\* no call is left spinning for ever once the other thread has finished.
C9_Cap1TenInOrder ==
    s_CAPACITY = 1 =>
        /\ s_inorder
        /\ s_ppc = "push2" => ~s_data[S_push_Slot].live
        /\ (s_ppc = "idle" /\ s_pushes = SMaxPushes) => ~SPopBlocked
        /\ (s_cpc = "idle" /\ s_pops = SMaxPushes) => ~SPushBlocked

\* C10: ring SPSC queue of any capacity, starting empty: push(v) followed by
\* pop() returns v and leaves the queue empty, after any number of earlier
\* round trips; neither call of a round trip is left spinning.
C10_RoundTrip ==
    s_trips =>
        /\ s_inorder
        /\ ~SPushBlocked
        /\ ~SPopBlocked
        /\ (s_ppc = "idle" /\ s_cpc = "idle" /\ s_pops = s_pushes) => SEmpty

\* more round trips than the capacity have completed, on a queue of capacity
\* above 1
C10_ManyRoundTrips ==
    /\ s_trips
    /\ s_ppc = "idle" /\ s_cpc = "idle"
    /\ s_pops = s_pushes
    /\ s_pops > s_CAPACITY
    /\ s_CAPACITY > 1
\* C7: ring ticket stack: if push P1 completes before push P2 starts with no
\* pop in between, the pop that follows P2 returns P2's value; a single
\* thread that pushes 1, 2, 3 and then pops three times obtains 3, 2, 1
\* (on a stack that has room for three elements), no call left spinning.
C7_NextPopReturnsLastPush ==
    /\ \A p1, p2, x \in KCalls :
          ( /\ KPushOk(p1) /\ KPushOk(p2) /\ KBefore(p1, p2)
            /\ k_calls[x].kind = "pop" /\ KDone(x) /\ KBefore(p2, x)
            /\ \A c \in KCalls \ {p1, p2, x} :
                  /\ KIsPopKind(c) => ~KBetween(c, p1, p2)
                  /\ ~KDuring(c, p2, x) )
          => (k_calls[x].state = "ok" /\ k_calls[x].val = KValueOf(p2))
    /\ (KThreePushesThenPops /\ k_CAPACITY >= 3) =>
          /\ \A t \in KT : ~KBlocked(t)
          /\ \A i \in KCalls :
                (i > 3 /\ KDone(i)) =>
                    (k_calls[i].state = "ok" /\ k_calls[i].val = KValueOf(7 - i))

\* one thread has pushed 1, 2, 3 and popped 3, 2, 1
C7_ThreeTwoOne ==
    /\ KThreePushesThenPops
    /\ Len(k_calls) = 6
    /\ \A i \in KCalls : KDone(i)
    /\ <<k_calls[4].val, k_calls[5].val, k_calls[6].val>>
           = <<KValueOf(3), KValueOf(2), KValueOf(1)>>
\* C4: hazard-protected linked stack, any schedule of push and pop: a node is
\* deallocated only after every pop that published it in its hazard record
\* and re-validated _head has finished dereferencing it; no pop reads the
\* _next or the _data of a deallocated node.
C4_NoUseAfterFree ==
    /\ ~h_uaf
    /\ \A t \in HT :
          h_pc[t] \in {"pop_next", "pop_move"} => h_node[h_loc[t].old].live
\* C5: hazard-protected linked stack: a pop that unlinks a node returns the
\* value its push stored in that node; pop returns None only when it found
\* _head null.
C5_PopReturnsUnlinkedValue ==
    \A i \in HPopsDone :
        /\ h_calls[i].took # None => h_calls[i].val = h_calls[i].took
        /\ h_calls[i].val = None => h_calls[i].took = None

\* every thread has run the loop push(v); pop() at least once and all have
\* finished
HLoopsFinished ==
    /\ HIdle
    /\ \A t \in 1..h_run.threads : HPushPopLoop(t) /\ Len(HCallsOf(t)) >= 2

\* C6: linked MPMC stack: when several threads have each run push(v); pop()
\* repeatedly and all have finished, empty() is true and the number of pops
\* that returned a value equals the number of pushes.
C6_PushPopLoopsBalance ==
    HLoopsFinished =>
        /\ H_empty
        /\ Cardinality({ i \in HPopsDone : h_calls[i].val # None })
              = Cardinality(HPushesDone)

\* after the loops every node has been unlinked and the stack is empty
C6_LoopsLeaveStackEmpty ==
    HLoopsFinished =>
        /\ H_empty
        /\ Cardinality({ i \in HPopsDone : h_calls[i].took # None })
              = Cardinality(HPushesDone)

\* C11: ring queue (MPMC and SPMC): a try_pop issued while the queue holds no
\* element and nothing runs but such try_pop calls returns None, and so does
\* every further one, for as long as no push, try_push or pop is issued.
C11_EmptyTryPopReturnsNone ==
    /\ \A i \in 1..Len(q_calls) :
          (q_calls[i].kind = "try_pop" /\ q_calls[i].state # "run" /\ q_calls[i].quiet)
              => q_calls[i].state = "fail"
    /\ \A i \in 1..Len(p_calls) :
          (p_calls[i].kind = "try_pop" /\ p_calls[i].state # "run" /\ p_calls[i].quiet)
              => p_calls[i].state = "fail"

\* SPMC queue: after a push and a pop have succeeded, two try_pop calls in a
\* row have found the queue empty
C11_TwoEmptyTryPops ==
    /\ PPushesOkNow # {}
    /\ \E i, j \in 1..Len(p_calls) :
          /\ i < j
          /\ \A c \in {i, j} :
                /\ p_calls[c].kind = "try_pop"
                /\ p_calls[c].quiet
                /\ p_calls[c].state = "fail"
          /\ \E k \in PPushesOkNow : k < i

\* MPMC queue: the same history
C11_TwoEmptyTryPops_MPMC ==
    \E i, j \in 1..Len(q_calls) :
          /\ i < j
          /\ \A c \in {i, j} :
                /\ q_calls[c].kind = "try_pop"
                /\ q_calls[c].quiet
                /\ q_calls[c].state = "fail"
          /\ \E k \in QPushesOkNow : k < i

\* the state of the ring MPMC queue: the counters and the slots
QContainer == <<q_head, q_tail, q_expected, q_data, q_size>>

\* thread t takes a step of try_push or try_pop that does not win the CAS on
\* the counter: it enters the call, loads, inspects, fails the CAS, or returns
\* false / None
QTryStepWithoutTicket(t) ==
    /\ q_pc[t] \in {"idle", "tpush2", "tpush3", "tpop2", "tpop3", "tpop4"}
    /\ q_pc'[t] \in {"idle", "tpush2", "tpush3", "tpop2", "tpop3", "tpop4"}
    /\ q_pc'[t] # q_pc[t] \/ q_ticket'[t] # q_ticket[t]

\* C12: ring MPMC queue: a try_push that returns false and a try_pop that
\* returns None have never won a ticket, and no step they took changed _head,
\* _tail, a slot's _expected_ticket, a stored element or _size.
C12_FailedTryLeavesState ==
    /\ [](\A i \in 1..Len(q_calls) :
            q_calls[i].state = "fail" => q_calls[i].ticket = NoTicket)
    /\ [][\A t \in QT : QTryStepWithoutTicket(t) => UNCHANGED QContainer]_vars

\* a try_pop has returned None and a try_push has returned false, the latter
\* on a queue of capacity 2 that held two elements
C12_BothFailed ==
    /\ q_CAPACITY = 2
    /\ \E i, j \in 1..Len(q_calls) :
          /\ q_calls[i].kind = "try_pop" /\ q_calls[i].state = "fail"
          /\ q_calls[j].kind = "try_push" /\ q_calls[j].state = "fail"
          /\ Cardinality({ k \in QPushesOkNow : k < j }) = 2

\* C13: ring ticket stack: a try_push that returns false leaves _top and every
\* slot's _expected_ticket as they were when it was called (stated for calls
\* that run alone: no call is ever issued while another one runs).
C13_FailedTryPushLeavesState ==
    [][\A t \in KT :
          ( /\ KSequential
            /\ k_pc[t] = "tpush2"
            /\ k_pc'[t] = "idle"
            /\ k_calls'[k_op[t]].state = "fail" )
          => (k_top' = k_ticket[t] /\ UNCHANGED k_expected)]_vars

\* the elements a LIFO stack holds after the first n calls of the history
RECURSIVE KHeld(_)
KHeld(n) ==
    IF n = 0 THEN <<>>
    ELSE LET c == k_calls[n]
             h == KHeld(n - 1)
         IN  IF c.state # "ok" THEN h
             ELSE IF c.kind \in {"push", "try_push"} THEN Append(h, c.val)
             ELSE IF h = <<>> THEN h ELSE SubSeq(h, 1, Len(h) - 1)

\* C14: ring ticket stack, calls issued one after the other: a try_pop on a
\* stack that holds at least one element returns the element pushed last;
\* it returns None only when the stack holds no element.
C14_TryPopReturnsTop ==
    KSequential =>
      \A i \in KCalls :
        (k_calls[i].kind = "try_pop" /\ KDone(i)) =>
            LET h == KHeld(i - 1) IN
            IF h = <<>> THEN k_calls[i].state = "fail"
            ELSE k_calls[i].state = "ok" /\ k_calls[i].val = h[Len(h)]

\* a pop waits on the empty queue and no push is under way to fill it
BPopStuck(t) ==
    /\ b_pc[t] = "pop_wait"
    /\ b_queue = <<>>
    /\ \A u \in BT : b_pc[u] # "push_notify"

\* C15: blocking queue: the pops return the pushed elements in order, and
\* once stop() has been called (by the shutdown of the pool) no pop is left
\* waiting on the drained queue: a pop issued then returns None at once and
\* a pop that was waiting is woken and returns None.
C15_StopEndsPops ==
    /\ b_inorder
    /\ ~b_running => \A t \in BT : ~BPopStuck(t)
\* ----------------------------------------------------------------
\* the hazard registry
\* ----------------------------------------------------------------
\* thread t is between the return of acquire_hazard_ptr_record and the end of
\* reset: its Hazard_Ptr_Owner points to the record h_loc[t].rec
HHolds(t) ==
    h_pc[t] \in {"pop_load", "pop_protect", "pop_validate", "pop_next", "pop_cas",
                 "pop_clear", "pop_move", "pop_retire", "reclaim_scan",
                 "reclaim_free", "pop_reset", "pop_reset_owner"}

\* C16: a hazard record is owned by at most one thread at every instant: the
\* record a thread works with carries the id of that thread, so no two threads
\* work with the same record; and the record acquire returns is one that
\* carried the id of the caller already or one whose owner the caller changed
\* from the empty id to its own id, never one that carried the id of another
\* thread.
C16_OwnedByOne ==
    /\ [](\A t \in HT : HHolds(t) => h_owner[h_loc[t].rec] = t)
    /\ [][\A t \in HT : (~HHolds(t) /\ HHolds(t)') =>
              /\ h_owner'[h_loc'[t].rec] = t
              /\ h_owner[h_loc'[t].rec] \in {EmptyTid, t}]_vars

\* two threads work with a record each at the same time, one of them with a
\* record it found after a record of the other
C16_TwoOwners ==
    \E t, u \in HT :
        /\ t # u /\ HHolds(t) /\ HHolds(u)
        /\ h_loc[t].rec = 0 /\ h_loc[u].rec > 0
        /\ h_owner[h_loc[t].rec] = t /\ h_owner[h_loc[u].rec] = u


\* C17: acquire_hazard_ptr_record ends in std::terminate only when every
\* record of the registry is owned by another thread: at the step that aborts
\* no record carries the empty id (the threads are no more than the records).
C17_AbortsOnlyWhenExhausted ==
    [][\A t \in HT :
          (h_pc[t] # "terminated" /\ h_pc'[t] = "terminated") =>
              \A r \in HRecords : h_owner[r] \notin {EmptyTid, t}]_vars

\* ----------------------------------------------------------------
\* the retired nodes at the end of the threads
\* ----------------------------------------------------------------
\* every thread that called into the stack has ended or has destroyed the stack
HAllGone ==
    /\ h_used > 0
    /\ \A t \in HT : \/ h_pc[t] \in {"exited", "destroyed"}
                      \/ (h_pc[t] = "idle" /\ t > h_used)

\* the nodes the stack still holds
HStackNodes ==
    IF \E t \in HT : h_pc[t] = "destroyed" THEN {}
    ELSE HChainOf(h_head, HMaxNodes)

\* C18: every retired node is deallocated in the end: once every thread that
\* called into the stack has ended (or has destroyed the stack), no node that
\* was unlinked from the stack is still allocated.
C18_RetiredAreFreed ==
    HAllGone => \A n \in HNodes : h_node[n].live => n \in HStackNodes

\* ----------------------------------------------------------------
\* the linked MPSC stack
\* ----------------------------------------------------------------
MCalls == 1..Len(m_calls)
\* the pops that have returned an element
MPopsOk ==
    { i \in MCalls : m_calls[i].kind = "pop" /\ m_calls[i].state = "done"
                        /\ m_calls[i].val # None }
\* the place of the push of value v in the order of the successful CASes
MRankOf(v) == m_calls[CHOOSE i \in MCalls : m_calls[i].kind = "push" /\ m_calls[i].val = v].rank

\* C19: the pushes of the linked MPSC stack are ordered by the success of
\* their CAS on _head: a pop returns the value whose push was the last to
\* succeed among the values held (and nothing only when none is held), so
\* pops with no push succeeding in between return the values in the reverse
\* of that order, and no pushed value is returned twice.
C19_LinkedLifo ==
    /\ (m_head = Null) <=> (m_order = <<>>)
    /\ \A i \in MCalls :
          (m_calls[i].kind = "pop" /\ m_calls[i].state = "done") =>
              m_calls[i].val = m_calls[i].want
    /\ \A i, j \in MPopsOk :
          /\ i # j => m_calls[i].val # m_calls[j].val
          /\ (i < j /\ m_calls[i].pushes = m_calls[j].pushes) =>
                MRankOf(m_calls[j].val) < MRankOf(m_calls[i].val)

\* two pushes whose CASes succeeded in the reverse of the order of the calls,
\* then two pops with no push in between: the pops returned the value of the
\* first call, then the value of the second
C19_TwoPopsReversed ==
    \E i, j \in MPopsOk :
        /\ i < j /\ m_calls[i].pushes = m_calls[j].pushes
        /\ m_calls[i].val = MValueOf(1) /\ m_calls[j].val = MValueOf(2)
        /\ MRankOf(MValueOf(1)) = 2 /\ MRankOf(MValueOf(2)) = 1

\* ----------------------------------------------------------------
\* the blocking calls of the ring MPMC queue under fair scheduling
\* ----------------------------------------------------------------
\* as many blocking pushes as blocking pops have been issued
QBalanced ==
    Cardinality({ i \in 1..Len(q_calls) : q_calls[i].kind = "push" }) =
    Cardinality({ i \in 1..Len(q_calls) : q_calls[i].kind = "pop" })

\* thread t is inside a call and its next statement can be executed: it is
\* not spinning on a slot whose mark is not the one it waits for
QCanStep(t) ==
    /\ q_pc[t] # "idle"
    /\ q_pc[t] = "push2" => q_expected[QSlot(q_ticket[t])] = q_ticket[t]
    /\ q_pc[t] = "pop2" => q_expected[QSlot(q_ticket[t])] = q_ticket[t] + 1

\* C20: when n blocking pushes and n blocking pops have been issued, every
\* one of them returns in the end under fair scheduling: as long as one of
\* them has not returned, some thread inside a call can execute its next
\* statement (otherwise every thread inside a call spins for ever, however
\* the threads are scheduled).
C20_BlockingOpsReturn ==
    (QBalanced /\ ~QIdle) => \E t \in QT : QCanStep(t)

\* the same for the capacities above one
C20_BlockingOpsReturn_Cap2Up == q_CAPACITY > 1 => C20_BlockingOpsReturn

\* under fair scheduling: once as many pushes as pops are issued, all of them
\* return unless a further call is issued
C20_EventuallyAllReturn == QBalanced ~> (QIdle \/ ~QBalanced)
C20_EventuallyAllReturn_Cap2Up ==
    (q_CAPACITY > 1 /\ QBalanced) ~> (QIdle \/ ~QBalanced)

\* ----------------------------------------------------------------
\* try_push and try_pop never wait
\* ----------------------------------------------------------------
\* how far a statement of try_push or try_pop is from the start of the call
QTryRank(pc) ==
    CASE pc = "tpush2" -> 1 [] pc = "tpush3" -> 2 [] pc = "tpush4" -> 3
      [] pc = "tpush5" -> 4 [] pc = "tpush6" -> 5
      [] pc = "tpop2" -> 1 [] pc = "tpop3" -> 2 [] pc = "tpop4" -> 3
      [] pc = "tpop5" -> 4 [] pc = "tpop7" -> 5 [] pc = "tpop8" -> 6
      [] OTHER -> 7

\* thread t, inside try_push or try_pop, executes a statement
QTryStep(t) ==
    /\ QTryRank(q_pc[t]) < 7
    /\ \/ q_pc'[t] # q_pc[t]
       \/ q_calls'[q_op[t]].checks # q_calls[q_op[t]].checks

\* the statement is a compare-exchange on _tail or _head that fails
QTryCasFails(t) ==
    /\ q_pc[t] \in {"tpush3", "tpop4"}
    /\ q_pc'[t] \in {"tpush2", "tpop2"}
    /\ q_calls'[q_op[t]].checks = q_calls[q_op[t]].checks - 1

\* C21: try_push and try_pop never wait on a slot: a call loads the mark of
\* its slot once and returns or goes on to its compare-exchange, and it loads
\* the mark again only after that compare-exchange has failed; every other
\* statement brings the call nearer to its return, so the call returns within
\* six statements of its own unless a compare-exchange of it fails.
C21_TryOpsNeverWait ==
    /\ [](\A i \in 1..Len(q_calls) :
             q_calls[i].kind \in {"try_push", "try_pop"} => q_calls[i].checks \in {0, 1})
    /\ [][\A t \in QT :
             QTryStep(t) => \/ QTryCasFails(t)
                            \/ QTryRank(q_pc'[t]) > QTryRank(q_pc[t])]_vars

\* a try_push found its slot taken and returned after one load of the mark,
\* and a try_pop whose compare-exchange failed has loaded the mark of its
\* slot again and is at its second compare-exchange
C21_CheckedAgainAfterCasFailure ==
    /\ \E i \in 1..Len(q_calls) :
          /\ q_calls[i].kind = "try_push" /\ q_calls[i].state = "fail"
          /\ q_calls[i].checks = 1
    /\ \E t \in QT :
          /\ q_pc[t] = "tpop4"
          /\ q_calls[q_op[t]].checks = 1 /\ q_calls[q_op[t]].retried

\* ----------------------------------------------------------------
\* a stalled thread delays the calls on its slot only
\* ----------------------------------------------------------------
\* thread u has reserved a ticket and has not yet stored the mark that
\* republishes its slot
QHoldsSlot(u) ==
    q_pc[u] \in {"push2", "push3", "push4", "tpush4", "tpush5",
                 "pop2", "pop3", "pop5", "tpop5", "tpop7"}

\* the push with producer ticket c has stored the FULL mark of its slot
QPushPublished(c) ==
    \E i \in 1..Len(q_calls) :
        /\ QIsPush(i) /\ q_calls[i].ticket = c
        /\ \/ q_calls[i].state = "ok"
           \/ \E u \in QT : q_op[u] = i /\ q_pc[u] \in {"push5", "tpush6"}

\* the pop with consumer ticket c has stored the EMPTY mark of the next round
\* (the slots start with the EMPTY mark of the first round)
QPopPublished(c) ==
    \/ c < 0
    \/ \E i \in 1..Len(q_calls) :
          /\ QIsPop(i) /\ q_calls[i].ticket = c
          /\ \/ q_calls[i].state = "ok"
             \/ \E u \in QT : q_op[u] = i /\ q_pc[u] \in {"pop6", "tpop8"}

\* C22: a thread that has reserved a ticket and stays where it is delays the
\* calls on its own slot only: while thread u holds a ticket, a blocking push
\* or pop of another thread whose ticket maps to a different slot can go on
\* as soon as its counterpart on that slot has published.
C22_OtherSlotsStayUsable ==
    \A t, u \in QT :
        (t # u /\ QHoldsSlot(u) /\ QSlot(q_ticket[u]) # QSlot(q_ticket[t])) =>
            /\ (q_pc[t] = "push2" /\ QPopPublished(q_ticket[t] - q_CAPACITY))
                   => ENABLED Q_push_Step2(t)
            /\ (q_pc[t] = "pop2" /\ QPushPublished(q_ticket[t]))
                   => ENABLED Q_pop_Step2(t)

\* thread u is inside a push, between its ticket and its mark, and a push of
\* another thread that was issued after u took its ticket has returned: it
\* used the other slot
C22_PassedTheStalledPush ==
    \E u \in QT : \E i \in 1..Len(q_calls) :
        /\ q_pc[u] \in {"push2", "push3", "push4"}
        /\ i > q_op[u]
        /\ q_calls[i].kind = "push" /\ q_calls[i].state = "ok"
        /\ QSlot(q_calls[i].ticket) # QSlot(q_ticket[u])

\* ----------------------------------------------------------------
\* the tickets of the ring ticket stack under concurrent calls
\* ----------------------------------------------------------------
\* thread t is inside a push, between its ticket and its mark
KPushHolds(t) == k_pc[t] \in {"push2", "push3", "push4"}
\* thread t is inside a pop, between its ticket and its mark
KPopHolds(t) == k_pc[t] \in {"pop3", "pop4", "pop5"}

\* C23: under concurrent push and pop a ticket is held by at most one pusher
\* and by at most one popper at a time, no two pushes are between the
\* construction and the mark of the same slot, and no element is returned by
\* two pops.
C23_TicketsHeldOnce ==
    /\ \A t, u \in KT :
          t # u =>
            /\ ~(KPushHolds(t) /\ KPushHolds(u) /\ k_ticket[t] = k_ticket[u])
            /\ ~(KPopHolds(t) /\ KPopHolds(u) /\ k_ticket[t] = k_ticket[u])
            /\ ~(k_pc[t] \in {"push3", "push4"} /\ k_pc[u] \in {"push3", "push4"}
                   /\ KSlot(k_ticket[t]) = KSlot(k_ticket[u]))
    /\ \A i, j \in KCalls :
          (i # j /\ k_calls[i].kind = "pop" /\ k_calls[j].kind = "pop"
             /\ k_calls[i].state = "ok" /\ k_calls[j].state = "ok")
            => k_calls[i].val # k_calls[j].val

\* the elements the stack holds when call n is issued with no call running:
\* the pushes that have returned less the pops that have returned an element
KCountBefore(n) ==
    Cardinality({ i \in 1..(n - 1) : k_calls[i].kind = "push" /\ k_calls[i].state = "ok" })
    - Cardinality({ i \in 1..(n - 1) : k_calls[i].kind = "pop" /\ k_calls[i].state = "ok" })

\* C24: a blocking push that is issued while no other call runs and the stack
\* holds fewer elements than its capacity terminates, whatever pushes and
\* pops have completed before: such a push does not find itself spinning on
\* its slot with every other thread idle (no call is left that could store
\* the mark it waits for).
C24_PushTerminates ==
    \A t \in KT :
        ( /\ k_pc[t] = "push2"
          /\ \A u \in KT \ {t} : k_pc[u] = "idle"
          /\ \A i \in 1..(k_op[t] - 1) : KBefore(i, k_op[t])
          /\ KCountBefore(k_op[t]) < k_CAPACITY )
        => ~KBlocked(t)

\* C25: ring queue: the pop that holds consumer ticket c returns the value
\* constructed by the push that holds producer ticket c, whichever of push,
\* try_push, pop and try_pop reserved the tickets and in whatever order the
\* producers publish.
C25_PopReturnsItsTicketsValue ==
    \A p \in QPopsOk :
        \E i \in QPushesReserved :
            /\ q_calls[i].ticket = q_calls[p].ticket
            /\ q_calls[p].val = QValueOf(i)

\* the same statement for the capacities above 1
C25_PopReturnsItsTicketsValue_Cap2Up ==
    q_CAPACITY > 1 => C25_PopReturnsItsTicketsValue

\* thread u holds a producer ticket (reserved by the fetch_add of push or by
\* the compare-exchange of try_push) / a consumer ticket
QHoldsProducerTicket(u) ==
    q_pc[u] \in {"push2", "push3", "push4", "push5", "tpush4", "tpush5", "tpush6"}
QHoldsConsumerTicket(u) ==
    q_pc[u] \in {"pop2", "pop3", "pop5", "pop6", "tpop5", "tpop7", "tpop8"}

\* C26: ring MPMC queue: at every instant no two threads hold the same
\* producer ticket and no two threads hold the same consumer ticket, whether
\* the tickets were reserved by fetch_add, by compare-exchange or by both;
\* and over the whole run no producer ticket and no consumer ticket is
\* reserved by two calls.
C26_TicketHeldByOneThread ==
    /\ \A t, u \in QT :
          (t # u /\ QHoldsProducerTicket(t) /\ QHoldsProducerTicket(u))
              => q_ticket[t] # q_ticket[u]
    /\ \A t, u \in QT :
          (t # u /\ QHoldsConsumerTicket(t) /\ QHoldsConsumerTicket(u))
              => q_ticket[t] # q_ticket[u]
    /\ \A i, j \in 1..Len(q_calls) :
          ( /\ i # j
            /\ q_calls[i].ticket # NoTicket
            /\ q_calls[j].ticket # NoTicket
            /\ QIsPush(i) = QIsPush(j) )
          => q_calls[i].ticket # q_calls[j].ticket

\* one thread holds a producer ticket from fetch_add while another holds one
\* from compare-exchange, and the same for two consumer tickets
C26_MixedHolders ==
    \/ \E t, u \in QT :
          q_pc[t] \in {"push2", "push3", "push4"} /\ q_pc[u] \in {"tpush4", "tpush5"}
    \/ \E t, u \in QT :
          q_pc[t] \in {"pop2", "pop3", "pop5"} /\ q_pc[u] \in {"tpop5", "tpop7"}

\* thread u stands between the observation of its mark (for try_push and
\* try_pop: the compare-exchange that follows it) and the store of the
\* republished mark, as a producer / as a consumer
QInPushWindow(u) == q_pc[u] \in {"push3", "push4", "tpush4", "tpush5"}
QInPopWindow(u) == q_pc[u] \in {"pop3", "pop5", "tpop5", "tpop7"}
\* the next step of thread u constructs, or moves out and destroys, the data
\* of its slot
QTouchesData(u) == q_pc[u] \in {"push3", "tpush4", "pop3", "tpop5"}

\* C27: ring queue: a producer with ticket t is about to write, or has
\* written, the data of its slot only while the mark it observed (t) is still
\* the mark of the slot, a consumer with ticket t only while the mark is
\* t + 1; and while a thread stands between that observation and its store of
\* the republished mark, no other thread constructs, reads or destroys the
\* data of that slot.
C27_SlotDataIsExclusive ==
    /\ \A t \in QT :
          /\ QInPushWindow(t) => q_expected[QSlot(q_ticket[t])] = q_ticket[t]
          /\ QInPopWindow(t) => q_expected[QSlot(q_ticket[t])] = q_ticket[t] + 1
    /\ \A t, u \in QT :
          ( /\ t # u
            /\ QInPushWindow(t) \/ QInPopWindow(t)
            /\ QSlot(q_ticket[u]) = QSlot(q_ticket[t]) )
          => ~QTouchesData(u)

\* the same statement for the capacities above 1
C27_SlotDataIsExclusive_Cap2Up == q_CAPACITY > 1 => C27_SlotDataIsExclusive

\* the mark e of slot i is the EMPTY mark of some cycle k >= 0 (i + k * capacity) /
\* the FULL mark of some cycle k >= 0 (i + k * capacity + 1)
QIsEmptyMark(i, e) == e >= i /\ (e - i) % q_CAPACITY = 0
QIsFullMark(i, e) == e >= i + 1 /\ (e - i - 1) % q_CAPACITY = 0

\* C28: ring ticket queue: in every reachable state the mark of each slot i
\* is an EMPTY mark i + k * capacity or a FULL mark i + k * capacity + 1 for
\* some k >= 0, and never both at once (the two are distinguishable); before
\* the first call the mark of slot i is i; a push with ticket t that is about
\* to store t + 1 finds the mark t, and a pop with ticket c that is about to
\* store c + capacity finds the mark c + 1.
C28_MarksTellEmptyFromFull ==
    /\ \A i \in 0..(q_CAPACITY - 1) :
          /\ QIsEmptyMark(i, q_expected[i]) \/ QIsFullMark(i, q_expected[i])
          /\ ~(QIsEmptyMark(i, q_expected[i]) /\ QIsFullMark(i, q_expected[i]))
          /\ q_calls = <<>> => q_expected[i] = i
    /\ \A t \in QT :
          /\ q_pc[t] \in {"push4", "tpush5"}
                => q_expected[QSlot(q_ticket[t])] = q_ticket[t]
          /\ q_pc[t] \in {"pop5", "tpop7"}
                => q_expected[QSlot(q_ticket[t])] = q_ticket[t] + 1

\* the same statement for the capacities above 1
C28_MarksTellEmptyFromFull_Cap2Up == q_CAPACITY > 1 => C28_MarksTellEmptyFromFull

\* no push and no pop of the ticket ring queue is in progress
TQuiescent == \A t \in TT : t_pc[t] = "idle"

\* C29: ring queue: whenever no push or pop is in progress,
\* 0 <= tail - head <= capacity and tail - head is the number of stored
\* elements (so that empty() holds exactly when nothing is stored).
C29_TailMinusHeadIsContent ==
    TQuiescent =>
        /\ 0 <= t_tail - t_head
        /\ t_tail - t_head <= t_CAPACITY
        /\ t_tail - t_head = t_stored
        /\ T_empty <=> t_stored = 0

\* the same statement for the capacities above 1
C29_TailMinusHeadIsContent_Cap2Up == t_CAPACITY > 1 => C29_TailMinusHeadIsContent

\* the try_pop calls that have returned std::nullopt
QTryPopsNone ==
    { i \in 1..Len(q_calls) :
        q_calls[i].kind = "try_pop" /\ q_calls[i].state = "fail" }

\* C30 as claimed: try_pop does not return None while the element of a push
\* that had returned before the call began stays unreserved by any pop until
\* the call returns.
C30_NoneOnlyWhenNothingStays ==
    \A i \in QTryPopsNone : "stays" \notin q_calls[i].why

\* C30: ring MPMC queue: try_pop returns None only if, at the instant it
\* returns, every element of a returned push has been reserved by a pop, or
\* the slot of the next consumer ticket is not marked FULL for that ticket,
\* or another pop has taken the consumer ticket the call has loaded.
C30_NoneOnlyWhenDrainedOrContended ==
    \A i \in QTryPopsNone :
        q_calls[i].why \cap {"drained", "notfull", "raced"} # {}

\* a try_pop has returned None although the element of a returned push stayed
\* unreserved for the whole call: the slot of the next consumer ticket was
\* not marked FULL
C30_NoneWhileAnElementStays ==
    \E i \in QTryPopsNone : q_calls[i].why = {"stays", "notfull"}

\* size(): return _size.load(); the counter is a std::size_t, and a decrement
\* of 0 leaves SIZE_MAX: q_size below 0 stands for 2^64 + q_size
Q_size_Wrapped == q_size < 0

\* C31: ring MPMC queue with the size counter: at every instant
\* 0 <= size() <= capacity (the unsigned counter has not wrapped below zero),
\* and whenever no call is in progress size() is the number of stored
\* elements.
C31_SizeWithinCapacity ==
    /\ ~Q_size_Wrapped
    /\ q_size <= q_CAPACITY
    /\ QIdle => q_size = q_live

\* the hazard record of thread u holds node n: u has executed protect(n) and
\* not yet the clear() that follows
HProtects(u, n) ==
    /\ h_pc[u] \in {"pop_validate", "pop_next", "pop_cas", "pop_clear"}
    /\ n # Null
    /\ HLoadPtr(u, h_loc[u].rec) = n

\* the nodes the reclaim pass of thread t is about to deallocate
HAboutToFree(t) ==
    IF h_pc[t] # "reclaim_free" THEN {}
    ELSE { h_retired[t][i] : i \in 1..Len(h_retired[t]) } \ h_loc[t].seen

\* C32: hazard pointers: while the hazard record of a thread holds node N
\* (from its protect(N) until its clear()), no reclaim pass run by another
\* thread deallocates N.
C32_ProtectedNodeIsKept ==
    \A t, u \in HT : \A n \in HNodes :
        (t # u /\ HProtects(u, n)) => n \notin HAboutToFree(t)

\* the same for a holder that has found _head unchanged after its protect(N)
C32_ValidatedNodeIsKept ==
    \A t, u \in HT : \A n \in HNodes :
        (t # u /\ HProtects(u, n) /\ h_pc[u] \in {"pop_next", "pop_cas"})
            => n \notin HAboutToFree(t)

\* the nodes reachable from _head
HLinked == HChainOf(h_head, HMaxNodes + 1)

\* the nodes a pop has unlinked with its CAS and not yet retired
HUnlinked ==
    { h_loc[t].old : t \in { u \in HT : h_pc[u] \in {"pop_clear", "pop_move", "pop_retire"} } }
        \ {Null}

\* the retired nodes: the nodes in the MEMORY_RECLAIMERS of some thread
HRetired == UNION { { h_retired[t][i] : i \in 1..Len(h_retired[t]) } : t \in HT }

\* the nodes a push has allocated and not yet linked
HUnpushed == { h_loc[t].new : t \in { u \in HT : h_pc[u] = "push_cas" } }

\* C33: hazard-protected linked stack: _head and every _next reachable from
\* it is null or a node that has been pushed and not yet unlinked: no node
\* reachable from _head is unlinked, retired, deallocated or not yet pushed
\* (no CAS of pop has succeeded with a stale _next).
C33_HeadChainIsLinked ==
    \A n \in HLinked :
        /\ h_node[n].live
        /\ n \notin HUnlinked
        /\ n \notin HRetired
        /\ n \notin HUnpushed

\* the nodes the destructor of the stack, run by thread t, deallocates: the
\* nodes linked from _head, then the nodes of the retired list of t
HSweptChain == HChainOf(h_head, HMaxNodes + 1)
HSweptRetired(t) == { h_retired[t][i] : i \in 1..Len(h_retired[t]) }

\* the retired list of thread t names no node twice
HRetiredOnce(t) ==
    \A i, j \in 1..Len(h_retired[t]) : i # j => h_retired[t][i] # h_retired[t][j]

\* C34: hazard reclamation: every node is deallocated at most once: a reclaim
\* pass and the destructor of the stack deallocate only nodes that are
\* allocated, no retired list names a node twice, and the destructor finds no
\* node both linked from _head and in the retired list.
C34_FreedAtMostOnce ==
    \A t \in HT :
        /\ HRetiredOnce(t)
        /\ \A n \in HAboutToFree(t) : h_node[n].live
        /\ ENABLED H_destroy(t) =>
              /\ \A n \in HSweptChain \cup HSweptRetired(t) : h_node[n].live
              /\ HSweptChain \cap HSweptRetired(t) = {}

\* thread t ends a reclaim pass with this step
HPassEnds(t) == h_pc[t] = "reclaim_free" /\ h_pc'[t] # "reclaim_free"

\* thread t loads one more record into its snapshot with this step
HScans(t) == h_pc[t] = "reclaim_scan" /\ h_loc'[t].idx = h_loc[t].idx + 1

\* C35: a reclaim pass deallocates exactly the entries of the retired list
\* of the calling thread whose pointer is absent from the snapshot of the
\* published hazard pointers it has taken, and keeps exactly the other
\* entries, in their order; it touches no other node and no other list. The
\* snapshot receives, record by record, the non-null pointer of every record
\* that has an owner and nothing else.
C35_PassFreesTheUnprotected ==
    [][\A t \in HT :
          /\ HPassEnds(t) =>
                LET list == h_retired[t]
                    shot == h_loc[t].seen
                    entries == { list[i] : i \in 1..Len(list) }
                IN  /\ h_retired'[t] = SelectSeq(list, LAMBDA n : n \in shot)
                    /\ \A n \in entries \ shot : ~h_node'[n].live
                    /\ \A n \in HNodes \ (entries \ shot) : h_node'[n] = h_node[n]
                    /\ \A u \in HT \ {t} : h_retired'[u] = h_retired[u]
          /\ HScans(t) =>
                LET r == h_loc[t].idx
                    own == IF HPending(t, r, "owner") # 0
                           THEN h_sb[t][HPending(t, r, "owner")].val ELSE h_owner[r]
                    ptr == IF HPending(t, r, "ptr") # 0
                           THEN h_sb[t][HPending(t, r, "ptr")].val ELSE h_ptr[r]
                IN  h_loc'[t].seen =
                        h_loc[t].seen \cup
                            (IF own # EmptyTid /\ ptr # Null THEN {ptr} ELSE {})]_vars

\* a reclaim pass has ended that kept an entry its snapshot held, and has
\* deallocated nothing that is still listed
C35_PassKeptAnEntry ==
    \E t \in HT :
        /\ h_pc[t] = "pop_reset"
        /\ h_loc[t].seen # {}
        /\ h_retired[t] # <<>>
        /\ \A i \in 1..Len(h_retired[t]) :
              h_retired[t][i] \in h_loc[t].seen /\ h_node[h_retired[t][i]].live

\* thread t has returned from a pop and has not ended
HHasPopped(t) ==
    /\ h_pc[t] = "idle"
    /\ \E i \in HPopsDone : h_calls[i].thread = t

\* C36: a thread that has acquired a hazard record keeps owning it between
\* its successive pops (the record becomes unowned only when the thread
\* ends): a thread that has returned from a pop and has not ended is the owner
\* of a record.
C36_RecordKeptBetweenPops ==
    \A t \in HT : HHasPopped(t) => \E r \in HRecords : h_owner[r] = t

\* the nodes linked from node n, following at most k links
RECURSIVE MChainOf(_, _)
MChainOf(n, k) ==
    IF n = Null \/ k = 0 THEN {} ELSE {n} \cup MChainOf(m_node[n].next, k - 1)

\* the node thread t is about to dereference: old_head->_next before the CAS
\* of pop, old_head->_data after it
MDereferences(t) ==
    IF m_pc[t] \in {"pop_next", "pop_cas", "pop_move"} THEN {m_loc[t].old} \ {Null}
    ELSE {}

\* the nodes pop has unlinked and not yet deallocated
MUnlinked == { m_loc[t].old : t \in { u \in MT : m_pc[u] = "pop_move" } }

\* C37: linked MPSC stack, one consumer and concurrent producers: pop
\* deallocates the node it has unlinked before it returns, no thread
\* dereferences a deallocated node, and _head and every node linked from it
\* is allocated and not unlinked (the CAS of the consumer installs no
\* deallocated node).
C37_NoFreedNodeIsUsed ==
    /\ \A t \in MT : \A n \in MDereferences(t) : m_node[n].live
    /\ \A n \in MChainOf(m_head, MMaxNodes + 1) : m_node[n].live /\ n \notin MUnlinked
    /\ \A n \in MNodes :
          m_node[n].live =>
              \/ n \in MChainOf(m_head, MMaxNodes + 1)
              \/ n \in MUnlinked
              \/ \E t \in MP : m_pc[t] = "push_cas" /\ m_loc[t].new = n

\* the consumer has deallocated a node while a producer, inside its push,
\* still has the address of that node in new_head->_next
C37_ProducerHasStaleNext ==
    \E t \in MP :
        /\ m_pc[t] = "push_cas"
        /\ m_node[m_loc[t].new].next # Null
        /\ ~m_node[m_node[m_loc[t].new].next].live

\* ---- the ring SPMC queue against the invariants of the ring MPMC queue
\* the calls of push and try_push that have not returned false
PPushCalls ==
    { i \in 1..Len(p_calls) :
        p_calls[i].kind \in {"push", "try_push"} /\ p_calls[i].state # "fail" }

\* the producer ticket of call i of PPushCalls: the value of the plain counter
\* _tail the call works with, which is the number of calls that ran ++_tail
\* before it
PTicketOf(i) ==
    Cardinality({ j \in 1..(i - 1) :
        p_calls[j].kind \in {"push", "try_push"} /\ p_calls[j].state = "ok" })

\* consumer u holds a consumer ticket (reserved by the fetch_add of pop or by
\* the compare-exchange of try_pop)
PHoldsConsumerTicket(u) == p_pc[u] \in {"pop2", "pop3", "pop5"}

PIsEmptyMark(i, e) == e >= i /\ (e - i) % p_CAPACITY = 0
PIsFullMark(i, e) == e >= i + 1 /\ (e - i - 1) % p_CAPACITY = 0

\* C38: the ring SPMC queue, used by one producer and several consumers,
\* keeps the invariants of the ring MPMC queue and returns what the MPMC
\* queue is to return: (I1) the mark of slot i is an EMPTY mark
\* i + k * capacity or a FULL mark i + k * capacity + 1 and never both;
\* (I2) with no call in progress 0 <= tail - head <= capacity; (I3) no two
\* consumers hold the same consumer ticket; (I4) the producer at its store of
\* _tail + 1 finds the mark _tail, a consumer with ticket c at its store of
\* c + capacity finds the mark c + 1; and the pop with consumer ticket c
\* returns the value of the push with producer ticket c.
C38_VariantKeepsInvariants ==
    /\ \A i \in 0..(p_CAPACITY - 1) :
          /\ PIsEmptyMark(i, p_expected[i]) \/ PIsFullMark(i, p_expected[i])
          /\ ~(PIsEmptyMark(i, p_expected[i]) /\ PIsFullMark(i, p_expected[i]))
    /\ (\A t \in PT : p_pc[t] = "idle")
          => (0 <= p_tail - p_head /\ p_tail - p_head <= p_CAPACITY)
    /\ \A t, u \in PC :
          (t # u /\ PHoldsConsumerTicket(t) /\ PHoldsConsumerTicket(u))
              => p_ticket[t] # p_ticket[u]
    /\ p_pc[0] = "push3" => p_expected[PSlot(p_tail)] = p_tail
    /\ \A t \in PC :
          p_pc[t] = "pop5" =>
              /\ p_expected[PSlot(p_ticket[t])] = p_ticket[t] + 1
              /\ \E i \in PPushCalls :
                    /\ PTicketOf(i) = p_ticket[t]
                    /\ p_calls[p_op[t]].val = PValueOf(i)

\* the same statement for the capacities above 1
C38_VariantKeepsInvariants_Cap2Up == p_CAPACITY > 1 => C38_VariantKeepsInvariants

\* the calls 1..i were issued one after the other: each ran alone
ZOneByOne(i) == \A j \in 1..i : z_calls[j].alone

\* call i has returned from both queues
ZReturned(i) == z_calls[i].state # "run" /\ y_calls[i].state # "run"

\* C39: the stamped ring queue and the ticket ring queue of the same
\* capacity 2^k return the same results: whenever try_push and try_pop calls
\* are issued to both one after the other, by whichever threads, each call
\* returns from the stamped queue what it returns from the ticket queue
\* (true or false for try_push, the same value or std::nullopt for try_pop).
C39_StampedReturnsAsTicket ==
    \A i \in 1..Len(z_calls) :
        (ZOneByOne(i) /\ ZReturned(i)) =>
            /\ z_calls[i].state = y_calls[i].state
            /\ z_calls[i].val = y_calls[i].val

\* the same statement for the capacities above 1
C39_StampedReturnsAsTicket_Cap2Up == z_CAPACITY > 1 => C39_StampedReturnsAsTicket

\* the pop calls issued so far: every call is a push, a pop or the one
\* shutdown
BPopCalls == b_calls - b_pushes - (IF b_running THEN 0 ELSE 1)

\* the pops that wait for an element: blocked in _cv.wait / woken and about
\* to take _m again
BBlocked == { t \in BT : b_pc[t] = "pop_wait" /\ t \in b_waiting }
BAwake == { t \in BT : b_pc[t] = "pop_wait" /\ t \notin b_waiting }

\* the pushes that have appended their element and not yet called notify_one
BNotifying == { t \in BT : b_pc[t] = "push_notify" }

\* no wake-up is lost: while a pop is blocked in the wait, every element of
\* the queue has a woken pop that will take it or a push that is about to
\* notify
BNoLostWakeup ==
    BBlocked # {} =>
        Len(b_queue) <= Cardinality(BAwake) + Cardinality(BNotifying)

\* C40: blocking queue: a pop that waits is woken by a later push and
\* returns: whenever a pop waits while as many pushes as pops have been
\* issued (k pops, k pushes), the pop returns, unless further pops are
\* issued that outnumber the pushes; the pops return distinct pushed
\* values, in the order of the pushes.
C40_WaitingPopsReturn ==
    /\ \A t \in BT :
          (b_pc[t] = "pop_wait" /\ b_pushes >= BPopCalls)
              ~> (b_pc[t] = "idle" \/ b_pushes < BPopCalls)
    /\ [](BNoLostWakeup /\ b_inorder)

\* two pops that found the queue empty have been woken after two pushes
\* returned, and the two elements are in the queue for them
C40_TwoWaitersWoken ==
    /\ Cardinality(BAwake) = 2
    /\ BNotifying = {}
    /\ b_pushes = 2
    /\ BPopCalls = 2
    /\ b_queue = <<BValueOf(1), BValueOf(2)>>

====
